---- MODULE Spec2Model ----
(***************************************************************************)
(* Job orchestration engine of smart-comp-web: the Redis-backed job        *)
(* repository and semaphore (app/core/jobs.py), the lifecycle runner       *)
(* (app/worker/runner.py), the Celery entry points (app/worker/tasks.py),  *)
(* JobService.cancel_job (app/core/job_service.py) and the job directory   *)
(* handling of app/core/storage.py.                                        *)
(*                                                                         *)
(* Every Redis command and every filesystem call is one atomic step; the   *)
(* fetch-mutate-store updates of the repository are therefore two steps    *)
(* (get, then set), as they are two round trips in the code.               *)
(***************************************************************************)
EXTENDS Integers, Sequences, FiniteSets, TLC

----------------------------------------------------------------------------
(* Bounds of the model *)

\* number of jobs submitted through enqueue_job
NumJobs == 2
\* settings.max_concurrent_jobs (any value >= 1)
MaxConcurrentJobs == 1
\* settings.job_timeout_seconds (any value > 0), in clock ticks
JobTimeoutSeconds == 1
\* the wall clock runs from 0 to MaxTime
MaxTime == 2
\* payload bootstrapIterations / permutationCount
Iterations == 1
\* number of JobService.cancel_job calls the API receives
MaxCancels == 1
\* permits that execute invocations of jobs outside the model may hold at a time
MaxHolders == 1

Jobs == 1..NumJobs

----------------------------------------------------------------------------
(* app/core/jobs.py: JobStatus, JobProgress, JobRecord and their JSON form *)

QUEUED == "QUEUED"
RUNNING == "RUNNING"
COMPLETED == "COMPLETED"
FAILED == "FAILED"
CANCELLED == "CANCELLED"

JobStatus == {QUEUED, RUNNING, COMPLETED, FAILED, CANCELLED}

\* job_service.py:132: the statuses cancel_job refuses to act on
TerminalStatuses == {COMPLETED, FAILED, CANCELLED}

\* Python None for the str-typed fields, and for the datetime-typed fields
None == "None"
NoTime == -1

\* JSON null, and the ISO-8601 text of a datetime
JsonNull == <<>>
isoformat(t) == <<"iso", t>>

JobProgress == [percent |-> 0, step |-> None, message |-> None]

\* the job types the runner distinguishes (runner.py:141)
JobType(j) == IF j % 2 = 1 THEN "BOOTSTRAP_SINGLE" ELSE "KW_PERMUTATION"

\* JobRecord(job_id, job_type, status) with created_at = _utcnow()
JobRecord(job_id, job_type, status, created_at) ==
    [job_id |-> job_id, job_type |-> job_type, status |-> status,
     created_at |-> created_at, started_at |-> NoTime, finished_at |-> NoTime,
     task_id |-> None, progress |-> JobProgress, error |-> None]

\* a local variable that holds no record yet
NoRecord == JobRecord(0, None, None, NoTime)

\* JobRecord.to_dict that leaves the task id out ("taskId": None): a variant
\* under which a stored record forgets its Celery task
to_dict_without_task(r) ==
    [jobId |-> r.job_id, jobType |-> r.job_type, status |-> r.status,
     createdAt |-> isoformat(r.created_at),
     startedAt |-> IF r.started_at # NoTime THEN isoformat(r.started_at) ELSE JsonNull,
     finishedAt |-> IF r.finished_at # NoTime THEN isoformat(r.finished_at) ELSE JsonNull,
     taskId |-> JsonNull,
     progress |-> [percent |-> r.progress.percent,
                   step |-> IF r.progress.step = None THEN JsonNull ELSE <<r.progress.step>>,
                   message |-> IF r.progress.message = None THEN JsonNull
                               ELSE <<r.progress.message>>],
     error |-> IF r.error = None THEN JsonNull ELSE <<r.error>>]

to_dict(r) ==
    [jobId |-> r.job_id, jobType |-> r.job_type, status |-> r.status,
     createdAt |-> isoformat(r.created_at),
     startedAt |-> IF r.started_at # NoTime THEN isoformat(r.started_at) ELSE JsonNull,
     finishedAt |-> IF r.finished_at # NoTime THEN isoformat(r.finished_at) ELSE JsonNull,
     taskId |-> IF r.task_id = None THEN JsonNull ELSE <<r.task_id>>,
     progress |-> [percent |-> r.progress.percent,
                   step |-> IF r.progress.step = None THEN JsonNull ELSE <<r.progress.step>>,
                   message |-> IF r.progress.message = None THEN JsonNull
                               ELSE <<r.progress.message>>],
     error |-> IF r.error = None THEN JsonNull ELSE <<r.error>>]

_parse_datetime(value) == IF value = JsonNull THEN NoTime ELSE value[2]

JsonStr(value) == IF value = JsonNull THEN None ELSE value[1]

from_dict(data) ==
    [job_id |-> data.jobId, job_type |-> data.jobType, status |-> data.status,
     created_at |-> _parse_datetime(data.createdAt),
     started_at |-> _parse_datetime(data.startedAt),
     finished_at |-> _parse_datetime(data.finishedAt),
     task_id |-> JsonStr(data.taskId),
     progress |-> [percent |-> data.progress.percent,
                   step |-> JsonStr(data.progress.step),
                   message |-> JsonStr(data.progress.message)],
     error |-> JsonStr(data.error)]


\* "no change" for the percent argument of update_progress (jobs.py:164)
NoPercent == -1

\* JobRepository.get on the value of the job key; NoRecord stands for None
get(jobs, job_id) ==
    IF job_id \in DOMAIN jobs THEN from_dict(jobs[job_id]) ELSE NoRecord

\* JobRepository.save: SET job:<id> <json>
save(jobs, record) ==
    [k \in DOMAIN jobs \cup {record.job_id} |->
        IF k = record.job_id THEN to_dict(record) ELSE jobs[k]]

\* update_status treating error like the two timestamps, assigned only when
\* given: a variant in which a later status keeps the message of an earlier one
update_status_keep_error(record, status, started_at, finished_at, error) ==
    [record EXCEPT
        !.status = status,
        !.started_at = IF started_at # NoTime THEN started_at ELSE record.started_at,
        !.finished_at = IF finished_at # NoTime THEN finished_at ELSE record.finished_at,
        !.error = IF error # None THEN error ELSE record.error]

\* update_status that never assigns started_at: a variant in which a RUNNING
\* record carries no start time
update_status_without_start(record, status, started_at, finished_at, error) ==
    [record EXCEPT
        !.status = status,
        !.finished_at = IF finished_at # NoTime THEN finished_at ELSE record.finished_at,
        !.error = error]

\* the mutation of JobRepository.update_status (jobs.py:154-157)
update_status(record, status, started_at, finished_at, error) ==
    [record EXCEPT
        !.status = status,
        !.started_at = IF started_at # NoTime THEN started_at ELSE record.started_at,
        !.finished_at = IF finished_at # NoTime THEN finished_at ELSE record.finished_at,
        !.error = error]

\* the mutation of JobRepository.update_progress (jobs.py:172-177)
update_progress(record, percent, step, message) ==
    [record EXCEPT
        !.progress = [percent |-> IF percent # NoPercent THEN percent
                                  ELSE record.progress.percent,
                      step |-> IF step # None THEN step ELSE record.progress.step,
                      message |-> IF message # None THEN message
                                  ELSE record.progress.message]]

\* the mutation of JobRepository.update_task_id (jobs.py:185)
update_task_id(record, task_id) == [record EXCEPT !.task_id = task_id]

\* is_cancel_requested: bool(int(flag)) if the cancel key exists
is_cancel_requested(cancel, job_id) ==
    IF job_id \in DOMAIN cancel THEN cancel[job_id] # 0 ELSE FALSE

\* mark_cancel_flag: SET job:<id>:cancel "1"
mark_cancel_flag(cancel, job_id) ==
    [k \in DOMAIN cancel \cup {job_id} |-> IF k = job_id THEN 1 ELSE cancel[k]]

\* clear_cancel_flag: DEL job:<id>:cancel
clear_cancel_flag(cancel, job_id) ==
    [k \in DOMAIN cancel \ {job_id} |-> cancel[k]]

----------------------------------------------------------------------------
(* app/core/jobs.py: JobSemaphore.  The key job:semaphore is absent (<<>>) *)
(* or holds a counter and the time at which Redis expires it.              *)

NoKey == <<>>

SemKey(value, expire_at) == <<[value |-> value, expire_at |-> expire_at]>>

\* tonumber(redis.call('get', KEYS[1]) or '0')
SemCurrent(sem) == IF sem = NoKey THEN 0 ELSE sem[1].value

SemExpireAt(sem) == IF sem = NoKey THEN NoTime ELSE sem[1].expire_at

\* the acquire script with the expiry set before the comparison with the limit:
\* a variant in which a refused caller extends the life of the counter
acquire_script_rearmed(sem, limit, ttl, t) ==
    LET current == SemCurrent(sem) IN
    IF current >= limit
    THEN [sem |-> IF sem = NoKey THEN NoKey ELSE SemKey(current, t + ttl),
          result |-> 0]
    ELSE [sem |-> SemKey(current + 1, t + ttl), result |-> current + 1]

\* the acquire script comparing with > in place of >=: a variant that admits
\* one caller more than the limit
acquire_script_past_limit(sem, limit, ttl, t) ==
    LET current == SemCurrent(sem) IN
    IF current > limit
    THEN [sem |-> sem, result |-> 0]
    ELSE LET updated == current + 1 IN
         [sem |-> SemKey(updated, IF ttl > 0 THEN t + ttl ELSE SemExpireAt(sem)),
          result |-> updated]

\* the Lua script of JobSemaphore.acquire, run atomically at time t
acquire_script(sem, limit, ttl, t) ==
    LET current == SemCurrent(sem) IN
    IF current >= limit
    THEN [sem |-> sem, result |-> 0]
    ELSE LET updated == current + 1 IN
         [sem |-> SemKey(updated, IF ttl > 0 THEN t + ttl ELSE SemExpireAt(sem)),
          result |-> updated]

\* the release script without its del calls: a variant in which a fully
\* released semaphore keeps a counter of zero
release_script_keep_key(sem) ==
    LET current == SemCurrent(sem) IN
    IF current <= 0
    THEN [sem |-> sem, result |-> 0]
    ELSE [sem |-> SemKey(current - 1, SemExpireAt(sem)), result |-> current - 1]

\* the Lua script of JobSemaphore.release
release_script(sem) ==
    LET current == SemCurrent(sem) IN
    IF current <= 0
    THEN [sem |-> NoKey, result |-> 0]
    ELSE LET updated == current - 1 IN
         [sem |-> IF updated <= 0 THEN NoKey ELSE SemKey(updated, SemExpireAt(sem)),
          result |-> updated]

\* JobSemaphore.acquire: bool(result) of the script, and the key afterwards
acquire(sem, limit, ttl_seconds, t) ==
    LET r == acquire_script(sem, limit, ttl_seconds, t)
    IN  [sem |-> r.sem, acquired |-> r.result # 0]

\* JobSemaphore.release returns None; the result is the key afterwards
release(sem) == release_script(sem).sem

\* Redis removes a key whose expiry time has been reached
expire(sem, t) ==
    IF sem # NoKey /\ SemExpireAt(sem) # NoTime /\ t >= SemExpireAt(sem)
    THEN NoKey ELSE sem

----------------------------------------------------------------------------
(* app/core/storage.py: the job directory tree *)

\* A file name is the sequence of the pieces that the glob patterns of
\* storage.py:68 tell apart; an entry of output/ is its path below output/, a
\* sequence of names.

\* the files JobArtifactWriter puts into output/ (runner.py:138,146,147)
INPUTS_READY == <<"inputs", ".ready">>
DATASET_CLEANED == <<"dataset", "_cleaned", ".csv">>
RESULTS_JSON == <<"results", ".json">>

\* output/plots (storage.py:33) and output/samples (storage.py:75)
PLOTS == <<"plots">>
SAMPLES == <<"samples">>

\* storage.py:68: "*_cleaned.csv", "*_sampled.csv", "*_sample.csv", each as
\* what follows its "*"
patterns == {<<"_cleaned", ".csv">>, <<"_sampled", ".csv">>, <<"_sample", ".csv">>}

\* fnmatch(name, "*" + ending)
fnmatch(name, ending) ==
    /\ Len(name) >= Len(ending)
    /\ SubSeq(name, Len(name) - Len(ending) + 1, Len(name)) = ending

\* output_dir.glob(pattern): the entries directly in output/ that match
glob(fs, ending) == {path \in fs : Len(path) = 1 /\ fnmatch(path[1], ending)}

\* shutil.rmtree(output_dir / name): the directory and all below it
rmtree(fs, name) == {path \in fs : path[1] # name}

\* cleanup_intermediate_outputs with rglob for glob: a variant that also takes
\* the matching files of the subdirectories
cleanup_intermediate_outputs_recursive(fs) ==
    LET matched == {path \in fs : \E ending \in patterns : fnmatch(path[Len(path)], ending)}
    IN  rmtree(fs \ matched, SAMPLES)

\* storage.py:66-81 cleanup_intermediate_outputs, on the entries of output/:
\* unlink of every match of the three patterns, then rmtree of samples/
cleanup_intermediate_outputs(fs) ==
    LET matched == UNION {glob(fs, ending) : ending \in patterns}
    IN  rmtree(fs \ matched, SAMPLES)

----------------------------------------------------------------------------
(* The state *)

VARIABLES
    now,          \* the wall clock, read by _utcnow()
    redis_jobs,   \* Redis: job:<id> -> JSON of the record (absent keys are outside the domain)
    redis_cancel, \* Redis: job:<id>:cancel -> flag
    semaphore,    \* Redis: job:semaphore
    dirs,         \* the jobs whose root directory (with input/, output/, output/plots/) exists
    files,        \* files[j]: the files of output/ of job j, as paths below output/
    epc,          \* enqueue_job(job_id = j): position
    erec,         \* enqueue_job: the record fetched by update_task_id
    wpc,          \* run_job / JobRunner.execute for job j: position
    wrec,         \* execute: the record a repository call has fetched and mutated
    windex,       \* _bootstrap_loop / _permutation_loop: index
    wdeadline,    \* execute: deadline
    wacquired,    \* execute: acquired
    wreleases,    \* number of JobSemaphore.release calls made by the invocation
    wexc,         \* the message of the exception in flight, None if none
    wret,         \* the record execute returns (finished)
    cpc,          \* JobService.cancel_job(j): position
    cprev,        \* cancel_job: previous_status
    crec,         \* cancel_job: the record fetched by update_status
    cancels,      \* cancel_job calls received so far
    ccall,        \* the last cancel_job call: its job_id and the ApiError it raised, if any
    revoked,      \* the jobs whose task celery_app.control.revoke was called on
    holders,      \* permits held by execute invocations of jobs outside Jobs
    crashed,      \* such invocations that were killed while holding a permit
    wflagged,     \* history: the cancellation flag was set when execute started
    woutcome,     \* history: the except clause of execute that ran, None if none
    wterminal,    \* history: terminal statuses the invocation has written
    cterminal,    \* history: terminal statuses cancel_job has written to the job
    call_pc,      \* a function called on its own: the position of the caller, "idle" if none
    call_args,    \* its arguments
    call_result   \* what it has returned or raised

redis == <<redis_jobs, redis_cancel, semaphore>>
disk == <<dirs, files>>
enqueue_vars == <<epc, erec>>
worker_vars == <<wpc, wrec, windex, wdeadline, wacquired, wreleases, wexc, wret>>
cancel_vars == <<cpc, cprev, crec, cancels, ccall, revoked>>

history == <<wflagged, woutcome, wterminal, cterminal>>

\* the job system, and a call of one function outside it
system == <<now, redis, disk, enqueue_vars, worker_vars, cancel_vars, holders, crashed,
           history>>
calls == <<call_pc, call_args, call_result>>

vars == <<system, calls>>

\* a call that has raised no ApiError: the route answers 200 with the record
NoApiError == [status_code |-> 200, code |-> None]

\* the id Celery gives the task of job j (async_result.id = self.request.id)
TaskId(j) == "task"

\* the stored status of job j, None when there is no record
StoredStatus(j) == get(redis_jobs, j).status

\* no function is called on its own
NoCall ==
    /\ call_pc = "idle"
    /\ call_args = <<>>
    /\ call_result = <<>>

\* the job system before any job is submitted
InitSystem ==
    /\ now = 0
    /\ redis_jobs = <<>>
    /\ redis_cancel = <<>>
    /\ semaphore = NoKey
    /\ dirs = {}
    /\ files = [j \in Jobs |-> {}]
    /\ epc = [j \in Jobs |-> "new"]
    /\ erec = [j \in Jobs |-> NoRecord]
    /\ wpc = [j \in Jobs |-> "none"]
    /\ wrec = [j \in Jobs |-> NoRecord]
    /\ windex = [j \in Jobs |-> 0]
    /\ wdeadline = [j \in Jobs |-> NoTime]
    /\ wacquired = [j \in Jobs |-> FALSE]
    /\ wreleases = [j \in Jobs |-> 0]
    /\ wexc = [j \in Jobs |-> None]
    /\ wret = [j \in Jobs |-> NoRecord]
    /\ cpc = [j \in Jobs |-> "idle"]
    /\ cprev = [j \in Jobs |-> None]
    /\ crec = [j \in Jobs |-> NoRecord]
    /\ cancels = 0
    /\ ccall = [job_id |-> 0, error |-> NoApiError]
    /\ revoked = {}
    /\ holders = 0
    /\ crashed = 0
    /\ wflagged = [j \in Jobs |-> FALSE]
    /\ woutcome = [j \in Jobs |-> None]
    /\ wterminal = [j \in Jobs |-> 0]
    /\ cterminal = [j \in Jobs |-> 0]

Init == InitSystem /\ NoCall

\* time passes; Redis expires the semaphore key when its time has come
Tick ==
    /\ now < MaxTime
    /\ now' = now + 1
    /\ semaphore' = expire(semaphore, now + 1)
    /\ UNCHANGED <<redis_jobs, redis_cancel, disk, enqueue_vars, worker_vars, cancel_vars, holders, crashed, history,
                   calls>>

----------------------------------------------------------------------------
(* app/worker/tasks.py: enqueue_job *)

\* tasks.py:40-41: record = JobRecord(QUEUED); repository.save(record)
EnqueueSave(j) ==
    /\ epc[j] = "new"
    /\ redis_jobs' = save(redis_jobs, JobRecord(j, JobType(j), QUEUED, now))
    /\ epc' = [epc EXCEPT ![j] = "delay"]
    /\ UNCHANGED <<now, redis_cancel, semaphore, disk, erec, worker_vars, cancel_vars, holders, crashed, history,
                   calls>>

\* tasks.py:43: run_job.delay(...): the task message reaches the broker
EnqueueDelay(j) ==
    /\ epc[j] = "delay"
    /\ wpc' = [wpc EXCEPT ![j] = "queued"]
    /\ epc' = [epc EXCEPT ![j] = "task_get"]
    /\ UNCHANGED <<now, redis, disk, erec, wrec, windex, wdeadline, wacquired,
                   wreleases, wexc, wret, cancel_vars, holders, crashed, history, calls>>

\* tasks.py:44, jobs.py:182-185: update_task_id fetches the record and sets task_id
EnqueueTaskIdGet(j) ==
    /\ epc[j] = "task_get"
    /\ LET record == get(redis_jobs, j) IN
        IF record = NoRecord
        THEN /\ epc' = [epc EXCEPT ![j] = "raised"]
             /\ erec' = erec
        ELSE /\ erec' = [erec EXCEPT ![j] = update_task_id(record, TaskId(j))]
             /\ epc' = [epc EXCEPT ![j] = "task_save"]
    /\ UNCHANGED <<now, redis, disk, worker_vars, cancel_vars, holders, crashed, history, calls>>

\* jobs.py:186: update_task_id writes the record back; tasks.py:45 returns
EnqueueTaskIdSave(j) ==
    /\ epc[j] = "task_save"
    /\ redis_jobs' = save(redis_jobs, erec[j])
    /\ epc' = [epc EXCEPT ![j] = "done"]
    /\ erec' = [erec EXCEPT ![j] = NoRecord]
    /\ UNCHANGED <<now, redis_cancel, semaphore, disk, worker_vars, cancel_vars, holders, crashed, history,
                   calls>>

----------------------------------------------------------------------------
(* app/worker/tasks.py run_job and app/worker/runner.py JobRunner.execute *)

\* the error messages the runner writes
CONCURRENCY_LIMIT_REACHED == "Concurrency limit reached"
CANCELLED_MESSAGE == "Cancelled"
\* str(JobTimeoutError): "Job <id> exceeded timeout of <n>s" (runner.py:179)
TIMEOUT_MESSAGE == "Job exceeded timeout"
\* str(FileNotFoundError) of write_text into a removed output directory
NO_SUCH_FILE == "No such file or directory"
\* str(KeyError) of a repository update on a missing record (jobs.py:152)
JOB_NOT_FOUND == "Job not found"

\* the positions at which the worker process is inside run_job
Executing(j) == wpc[j] \notin {"none", "queued", "discarded", "returned", "raised", "killed"}

\* a repository fetch of the worker at position `at`: the record is fetched and the
\* mutation applied to the local copy (`mutated`, what the update makes of the
\* stored record); KeyError leads to `missing`
WorkerFetch(j, at, to, missing, mutated) ==
    /\ wpc[j] = at
    /\ LET record == get(redis_jobs, j) IN
        IF record = NoRecord
        THEN /\ wpc' = [wpc EXCEPT ![j] = missing]
             /\ wexc' = [wexc EXCEPT ![j] = JOB_NOT_FOUND]
             /\ wrec' = wrec
        ELSE /\ wpc' = [wpc EXCEPT ![j] = to]
             /\ wrec' = [wrec EXCEPT ![j] = mutated]
             /\ wexc' = wexc
    /\ UNCHANGED <<now, redis, disk, enqueue_vars, windex, wdeadline, wacquired,
                   wreleases, wret, cancel_vars, holders, crashed, history, calls>>

\* the write-back of a repository update of the worker; `keep` says whether the
\* caller goes on using the record it returns
WorkerStore(j, at, to, keep) ==
    /\ wpc[j] = at
    /\ redis_jobs' = save(redis_jobs, wrec[j])
    /\ wpc' = [wpc EXCEPT ![j] = to]
    /\ wrec' = IF keep THEN wrec ELSE [wrec EXCEPT ![j] = NoRecord]
    /\ UNCHANGED <<now, redis_cancel, semaphore, disk, enqueue_vars, windex,
                   wdeadline, wacquired, wreleases, wexc, wret, cancel_vars, holders, crashed, history,
                   calls>>

\* finished = repository.update_status(...): the write-back and its result
TerminalSave(j, at, to) ==
    /\ wpc[j] = at
    /\ redis_jobs' = save(redis_jobs, wrec[j])
    /\ wret' = [wret EXCEPT ![j] = wrec[j]]
    /\ wrec' = [wrec EXCEPT ![j] = NoRecord]
    /\ wpc' = [wpc EXCEPT ![j] = to]
    /\ wterminal' = [wterminal EXCEPT ![j] = @ + 1]
    /\ UNCHANGED <<now, redis_cancel, semaphore, disk, enqueue_vars, windex,
                   wdeadline, wacquired, wreleases, wexc, cancel_vars, holders, crashed,
                   wflagged, woutcome, cterminal, calls>>

\* storage.py:29-46 prepare_job_paths: mkdir input/, output/plots/
prepare_job_paths(d, j) == d \cup {j}

\* cleanup_job that finds no root to remove (job_paths.root.exists() False): a
\* variant that leaves the directory tree in place
cleanup_job_skipped(d, j) == d

\* cleanup_job handed the storage root instead of the job root: a variant that
\* removes the directory of every job
cleanup_job_storage_root(d, j) == {}

\* storage.py:60-63 cleanup_job: rmtree of the job root
cleanup_job(d, j) == d \ {j}

\* tasks.py:55: job_paths = prepare_job_paths(job_id, settings.storage_root)
RunJobPrepare(j) ==
    /\ wpc[j] = "queued"
    /\ dirs' = prepare_job_paths(dirs, j)
    /\ wpc' = [wpc EXCEPT ![j] = "load"]
    /\ UNCHANGED <<now, redis, files, enqueue_vars, wrec, windex, wdeadline, wacquired,
                   wreleases, wexc, wret, cancel_vars, holders, crashed, history, calls>>

\* runner.py:50-54: record = repository.get(job_id) or JobRecord(QUEUED)
ExecuteLoad(j) ==
    /\ wpc[j] = "load"
    /\ LET record == get(redis_jobs, j) IN
        wrec' = [wrec EXCEPT ![j] =
                    IF record # NoRecord THEN record
                    ELSE JobRecord(j, JobType(j), QUEUED, now)]
    /\ wpc' = [wpc EXCEPT ![j] = "attach_get"]
    /\ wflagged' = [wflagged EXCEPT ![j] = is_cancel_requested(redis_cancel, j)]
    /\ UNCHANGED <<now, redis, disk, enqueue_vars, windex, wdeadline, wacquired,
                   wreleases, wexc, wret, cancel_vars, holders, crashed, woutcome, wterminal,
                   cterminal, calls>>

AttachMutate(j, record) == update_task_id(record, TaskId(j))

\* runner.py:56 -> tasks.py:58-59 attach_task: update_task_id(job_id, request.id)
ExecuteAttachGet(j) ==
    LET M(record) == AttachMutate(j, record) IN
    WorkerFetch(j, "attach_get", "attach_save", "raised", M(get(redis_jobs, j)))

ExecuteAttachSave(j) == WorkerStore(j, "attach_save", "save", TRUE)

\* runner.py:57: record = repository.save(record)
ExecuteSave(j) ==
    WorkerStore(j, "save", IF wrec[j].task_id # None THEN "attach2_get" ELSE "acquire", FALSE)

\* runner.py:59-60: set_task_id(record) once more
ExecuteAttachAgainGet(j) ==
    LET M(record) == AttachMutate(j, record) IN
    WorkerFetch(j, "attach2_get", "attach2_save", "raised", M(get(redis_jobs, j)))

ExecuteAttachAgainSave(j) == WorkerStore(j, "attach2_save", "acquire", FALSE)

\* runner.py:62-66: acquired = semaphore.acquire(max_concurrent_jobs, ttl_seconds=...)
ExecuteAcquire(j) ==
    /\ wpc[j] = "acquire"
    /\ LET r == acquire_script(semaphore, MaxConcurrentJobs, JobTimeoutSeconds, now) IN
        /\ semaphore' = r.sem
        /\ wacquired' = [wacquired EXCEPT ![j] = (r.result # 0)]
        /\ wpc' = [wpc EXCEPT ![j] = IF r.result # 0 THEN "running_get" ELSE "reject_get"]
    /\ UNCHANGED <<now, redis_jobs, redis_cancel, disk, enqueue_vars, wrec, windex,
                   wdeadline, wreleases, wexc, wret, cancel_vars, holders, crashed, history, calls>>

RejectMutate(record, t) == update_status(record, FAILED, NoTime, t, CONCURRENCY_LIMIT_REACHED)

\* runner.py:68-73: update_status(FAILED, error="Concurrency limit reached")
ExecuteRejectGet(j) ==
    LET M(record) == RejectMutate(record, now) IN
    WorkerFetch(j, "reject_get", "reject_save", "raised", M(get(redis_jobs, j)))

ExecuteRejectSave(j) == TerminalSave(j, "reject_save", "reject_cleanup")

\* the denial path returning `finished` without its cleanup_job call: a variant
\* that leaves the tree made by prepare_job_paths behind
ExecuteRejectKeep(j) ==
    /\ wpc[j] = "reject_cleanup"
    /\ wpc' = [wpc EXCEPT ![j] = "returned"]
    /\ UNCHANGED <<now, redis, disk, enqueue_vars, wrec, windex, wdeadline, wacquired,
                   wreleases, wexc, wret, cancel_vars, holders, crashed, history, calls>>

\* the denial path placed inside the try block: a variant whose return runs the
\* release of the finally block
ExecuteRejectReleasing(j) ==
    /\ wpc[j] = "reject_cleanup"
    /\ dirs' = cleanup_job(dirs, j)
    /\ files' = [files EXCEPT ![j] = {}]
    /\ semaphore' = release_script(semaphore).sem
    /\ wreleases' = [wreleases EXCEPT ![j] = @ + 1]
    /\ wpc' = [wpc EXCEPT ![j] = "returned"]
    /\ UNCHANGED <<now, redis_jobs, redis_cancel, enqueue_vars, wrec, windex, wdeadline,
                   wacquired, wexc, wret, cancel_vars, holders, crashed, history, calls>>

\* runner.py:74-75: cleanup_job(job_paths); return finished
ExecuteRejectCleanup(j) ==
    /\ wpc[j] = "reject_cleanup"
    /\ dirs' = cleanup_job(dirs, j)
    /\ files' = [files EXCEPT ![j] = {}]
    /\ wpc' = [wpc EXCEPT ![j] = "returned"]
    /\ UNCHANGED <<now, redis, enqueue_vars, wrec, windex, wdeadline, wacquired,
                   wreleases, wexc, wret, cancel_vars, holders, crashed, history, calls>>

RunningMutate(record, t) == update_status(record, RUNNING, t, NoTime, None)

\* runner.py:77-79: started_at = _utcnow(); update_status(RUNNING); deadline
ExecuteRunningGet(j) ==
    LET M(record) == RunningMutate(record, now) IN
    WorkerFetch(j, "running_get", "running_save", "raised", M(get(redis_jobs, j)))

ExecuteRunningSave(j) ==
    /\ wpc[j] = "running_save"
    /\ redis_jobs' = save(redis_jobs, wrec[j])
    /\ wdeadline' = [wdeadline EXCEPT ![j] = wrec[j].started_at + JobTimeoutSeconds]
    /\ wrec' = [wrec EXCEPT ![j] = NoRecord]
    /\ wpc' = [wpc EXCEPT ![j] = "prepare_get"]
    /\ UNCHANGED <<now, redis_cancel, semaphore, disk, enqueue_vars, windex,
                   wacquired, wreleases, wexc, wret, cancel_vars, holders, crashed, history, calls>>

----------------------------------------------------------------------------
(* runner.py:123-179: _run_job, the loops and _guard *)

Max(a, b) == IF a >= b THEN a ELSE b

\* runner.py:141: "KW" in job_type.upper() or "PERMUT" in job_type.upper()
IsPermutationJob(j) == JobType(j) = "KW_PERMUTATION"

LoopStep(j) == IF IsPermutationJob(j) THEN "permutation" ELSE "bootstrap"

\* runner.py:159,170: the message of iteration index + 1 of n
LoopMessage(j, index, n) ==
    (IF IsPermutationJob(j) THEN "Permutation " ELSE "Bootstrap iteration ")
        \o ToString(index + 1) \o "/" \o ToString(n)

\* runner.py:154,165: 5 + ((index + 1) / max(iterations, 1)) * 70, rounded down
LoopPercent(index, n) == 5 + ((index + 1) * 70) \div Max(n, 1)

\* _guard with its two tests in the other order, the clock first: a variant in
\* which a timeout hides a requested cancellation
guard_clock_first(cancel, job_id, t, deadline) ==
    IF t > deadline THEN "JobTimeoutError"
    ELSE IF is_cancel_requested(cancel, job_id) THEN "JobCancelledError"
    ELSE "ok"

\* _guard comparing with >= in place of >: a variant that times a job out at
\* its deadline
guard_at_deadline(cancel, job_id, t, deadline) ==
    IF is_cancel_requested(cancel, job_id) THEN "JobCancelledError"
    ELSE IF t >= deadline THEN "JobTimeoutError"
    ELSE "ok"

\* runner.py:173-179 _guard, as the signal it raises: the flag is looked at first,
\* the clock second
guard(cancel, job_id, t, deadline) ==
    IF is_cancel_requested(cancel, job_id) THEN "JobCancelledError"
    ELSE IF t > deadline THEN "JobTimeoutError"
    ELSE "ok"

\* a _guard checkpoint of the worker at position `at`
Guard(j, at, to) ==
    /\ wpc[j] = at
    /\ LET g == guard(redis_cancel, j, now, wdeadline[j]) IN
        wpc' = [wpc EXCEPT ![j] =
                    CASE g = "JobCancelledError" -> "cancelled_get"
                      [] g = "JobTimeoutError" -> "timeout_get"
                      [] OTHER -> to]
    /\ UNCHANGED <<now, redis, disk, enqueue_vars, wrec, windex, wdeadline, wacquired,
                   wreleases, wexc, wret, cancel_vars, holders, crashed, history, calls>>

\* JobArtifactWriter.write_placeholder (runner.py:186-189): write_text raises when
\* the output directory is gone, and the exception reaches `except Exception`
WritePlaceholder(j, at, to, name) ==
    /\ wpc[j] = at
    /\ IF j \in dirs
       THEN /\ files' = [files EXCEPT ![j] = @ \cup {<<name>>}]
            /\ wpc' = [wpc EXCEPT ![j] = to]
            /\ wexc' = wexc
       ELSE /\ files' = files
            /\ wpc' = [wpc EXCEPT ![j] = "error_get"]
            /\ wexc' = [wexc EXCEPT ![j] = NO_SUCH_FILE]
    /\ UNCHANGED <<now, redis, dirs, enqueue_vars, wrec, windex, wdeadline, wacquired,
                   wreleases, wret, cancel_vars, holders, crashed, history, calls>>

\* runner.py:137: update_progress(percent=5, step="prepare", ...)
RunPrepareGet(j) ==
    LET M(record) == update_progress(record, 5, "prepare", "Preparing inputs") IN
    WorkerFetch(j, "prepare_get", "prepare_save", "error_get", M(get(redis_jobs, j)))

RunPrepareSave(j) == WorkerStore(j, "prepare_save", "write_inputs", FALSE)

\* runner.py:138: writer.write_placeholder("inputs.ready")
RunWriteInputs(j) == WritePlaceholder(j, "write_inputs", "guard_prepare", INPUTS_READY)

\* runner.py:139: self._guard(job_id, deadline); then the loop, if it has iterations
RunGuardPrepare(j) ==
    Guard(j, "guard_prepare", IF Iterations > 0 THEN "guard_loop" ELSE "write_cleaned")

\* runner.py:153,164: the guard at the head of each iteration
RunGuardLoop(j) == Guard(j, "guard_loop", "loop_get")

\* runner.py:155-160,166-171: update_progress of the iteration
RunLoopGet(j) ==
    LET M(record) == update_progress(record, LoopPercent(windex[j], Iterations),
                                     LoopStep(j), LoopMessage(j, windex[j], Iterations)) IN
    WorkerFetch(j, "loop_get", "loop_save", "error_get", M(get(redis_jobs, j)))

RunLoopSave(j) ==
    /\ wpc[j] = "loop_save"
    /\ redis_jobs' = save(redis_jobs, wrec[j])
    /\ windex' = [windex EXCEPT ![j] = @ + 1]
    /\ wpc' = [wpc EXCEPT ![j] =
                    IF windex[j] + 1 < Iterations THEN "guard_loop" ELSE "write_cleaned"]
    /\ wrec' = [wrec EXCEPT ![j] = NoRecord]
    /\ UNCHANGED <<now, redis_cancel, semaphore, disk, enqueue_vars, wdeadline,
                   wacquired, wreleases, wexc, wret, cancel_vars, holders, crashed, history, calls>>

\* runner.py:146-147: the placeholders of the outputs
RunWriteCleaned(j) == WritePlaceholder(j, "write_cleaned", "write_results", DATASET_CLEANED)

RunWriteResults(j) == WritePlaceholder(j, "write_results", "finalize_get", RESULTS_JSON)

\* runner.py:148: update_progress(percent=90, step="finalize", ...)
RunFinalizeGet(j) ==
    LET M(record) == update_progress(record, 90, "finalize", "Finalizing outputs") IN
    WorkerFetch(j, "finalize_get", "finalize_save", "error_get", M(get(redis_jobs, j)))

RunFinalizeSave(j) == WorkerStore(j, "finalize_save", "guard_finalize", FALSE)

\* runner.py:149: the last guard; _run_job returns
RunGuardFinalize(j) == Guard(j, "guard_finalize", "completed_get")

----------------------------------------------------------------------------
(* runner.py:81-121: the outcome of _run_job, the handlers and the finally block *)

\* payload.get("cleanAll", False) of job j
CleanAll(j) == j % 2 = 0

\* storage.py:84-87 cleanup_after_completion on the entries of output/
cleanup_after_completion(fs, clean_all) ==
    IF ~clean_all THEN fs ELSE cleanup_intermediate_outputs(fs)

\* the terminal update_status of the handlers: fetch and mutate; a KeyError raised
\* here leaves execute through the finally block
TerminalGet(j, at, to, status, error) ==
    /\ wpc[j] = at
    /\ LET record == get(redis_jobs, j) IN
        IF record = NoRecord
        THEN /\ wpc' = [wpc EXCEPT ![j] = "finally_clear"]
             /\ wexc' = [wexc EXCEPT ![j] = JOB_NOT_FOUND]
             /\ wrec' = wrec
        ELSE /\ wpc' = [wpc EXCEPT ![j] = to]
             /\ wrec' = [wrec EXCEPT ![j] = update_status(record, status, NoTime, now, error)]
             /\ wexc' = [wexc EXCEPT ![j] = None]
    /\ woutcome' = [woutcome EXCEPT ![j] = at]
    /\ UNCHANGED <<now, redis, disk, enqueue_vars, windex, wdeadline, wacquired,
                   wreleases, wret, cancel_vars, holders, crashed, wflagged, wterminal, cterminal,
                   calls>>

\* cleanup_job(job_paths); return finished
TerminalCleanup(j, at) ==
    /\ wpc[j] = at
    /\ dirs' = cleanup_job(dirs, j)
    /\ files' = [files EXCEPT ![j] = {}]
    /\ wpc' = [wpc EXCEPT ![j] = "finally_clear"]
    /\ UNCHANGED <<now, redis, enqueue_vars, wrec, windex, wdeadline, wacquired,
                   wreleases, wexc, wret, cancel_vars, holders, crashed, history, calls>>

\* runner.py:83-87: update_status(COMPLETED, finished_at=_utcnow())
ExecuteCompletedGet(j) ==
    /\ wpc[j] = "completed_get"
    /\ LET record == get(redis_jobs, j) IN
        IF record = NoRecord
        THEN /\ wpc' = [wpc EXCEPT ![j] = "error_get"]
             /\ wexc' = [wexc EXCEPT ![j] = JOB_NOT_FOUND]
             /\ wrec' = wrec
        ELSE /\ wpc' = [wpc EXCEPT ![j] = "completed_save"]
             /\ wrec' = [wrec EXCEPT ![j] = update_status(record, COMPLETED, NoTime, now, None)]
             /\ wexc' = wexc
    /\ UNCHANGED <<now, redis, disk, enqueue_vars, windex, wdeadline, wacquired,
                   wreleases, wret, cancel_vars, holders, crashed, history, calls>>

ExecuteCompletedSave(j) == TerminalSave(j, "completed_save", "progress_get")

\* runner.py:88: update_progress(percent=100.0, step="completed", message=None)
ExecuteProgressGet(j) ==
    LET M(record) == update_progress(record, 100, "completed", None) IN
    WorkerFetch(j, "progress_get", "progress_save", "error_get", M(get(redis_jobs, j)))

ExecuteProgressSave(j) == WorkerStore(j, "progress_save", "completed_cleanup", FALSE)

\* runner.py:89-90: cleanup_after_completion(job_paths, cleanAll); return finished
ExecuteCompletedCleanup(j) ==
    /\ wpc[j] = "completed_cleanup"
    /\ files' = [files EXCEPT ![j] = cleanup_after_completion(@, CleanAll(j))]
    /\ wpc' = [wpc EXCEPT ![j] = "finally_clear"]
    /\ UNCHANGED <<now, redis, dirs, enqueue_vars, wrec, windex, wdeadline, wacquired,
                   wreleases, wexc, wret, cancel_vars, holders, crashed, history, calls>>

\* runner.py:91-99: except JobCancelledError
ExecuteCancelledGet(j) ==
    TerminalGet(j, "cancelled_get", "cancelled_save", CANCELLED, CANCELLED_MESSAGE)

ExecuteCancelledSave(j) == TerminalSave(j, "cancelled_save", "cancelled_cleanup")

ExecuteCancelledCleanup(j) == TerminalCleanup(j, "cancelled_cleanup")

\* runner.py:100-108: except JobTimeoutError as exc: error=str(exc)
ExecuteTimeoutGet(j) ==
    TerminalGet(j, "timeout_get", "timeout_save", FAILED, TIMEOUT_MESSAGE)

ExecuteTimeoutSave(j) == TerminalSave(j, "timeout_save", "timeout_cleanup")

ExecuteTimeoutCleanup(j) == TerminalCleanup(j, "timeout_cleanup")

\* runner.py:109-118: except Exception as exc: error=str(exc)
ExecuteErrorGet(j) ==
    TerminalGet(j, "error_get", "error_save", FAILED, wexc[j])

ExecuteErrorSave(j) == TerminalSave(j, "error_save", "error_cleanup")

ExecuteErrorCleanup(j) == TerminalCleanup(j, "error_cleanup")

\* runner.py:120: finally: self.repository.clear_cancel_flag(job_id)
ExecuteFinallyClear(j) ==
    /\ wpc[j] = "finally_clear"
    /\ redis_cancel' = clear_cancel_flag(redis_cancel, j)
    /\ wpc' = [wpc EXCEPT ![j] = "finally_release"]
    /\ UNCHANGED <<now, redis_jobs, semaphore, disk, enqueue_vars, wrec, windex,
                   wdeadline, wacquired, wreleases, wexc, wret, cancel_vars, holders, crashed, history,
                   calls>>

\* runner.py:121: self.semaphore.release(); execute returns, or the exception of a
\* handler propagates
ExecuteFinallyRelease(j) ==
    /\ wpc[j] = "finally_release"
    /\ semaphore' = release_script(semaphore).sem
    /\ wreleases' = [wreleases EXCEPT ![j] = @ + 1]
    /\ wpc' = [wpc EXCEPT ![j] = IF wexc[j] = None THEN "returned" ELSE "raised"]
    /\ UNCHANGED <<now, redis_jobs, redis_cancel, disk, enqueue_vars, wrec, windex,
                   wdeadline, wacquired, wexc, wret, cancel_vars, holders, crashed, history, calls>>

----------------------------------------------------------------------------
(* app/core/job_service.py:130-147: JobService.cancel_job, and what revoke does *)

\* A client can cancel job j once enqueue_job has returned its id (tasks.py:39,45:
\* the id is a fresh uuid4 the caller learns from the returned record)
CancelCallable(j) == cpc[j] = "idle" /\ epc[j] = "done"

\* job_service.py:133: ApiError(409, "INVALID_STATE", ...)
INVALID_STATE == [status_code |-> 409, code |-> "INVALID_STATE"]

\* cancel_job that sets the cancellation flag before it looks at the status: a
\* variant in which a rejected call leaves the flag behind
CancelInvalidStateMarked(j) ==
    /\ CancelCallable(j)
    /\ cancels < MaxCancels
    /\ StoredStatus(j) \in TerminalStatuses
    /\ redis_cancel' = mark_cancel_flag(redis_cancel, j)
    /\ cancels' = cancels + 1
    /\ ccall' = [job_id |-> j, error |-> INVALID_STATE]
    /\ UNCHANGED <<now, redis_jobs, semaphore, disk, enqueue_vars, worker_vars, cpc,
                   cprev, crec, revoked, holders, crashed, history, calls>>

\* job_service.py:131-133: the record is terminal: ApiError 409 INVALID_STATE
CancelInvalidState(j) ==
    /\ CancelCallable(j)
    /\ cancels < MaxCancels
    /\ StoredStatus(j) \in TerminalStatuses
    /\ cancels' = cancels + 1
    /\ ccall' = [job_id |-> j, error |-> INVALID_STATE]
    /\ UNCHANGED <<now, redis, disk, enqueue_vars, worker_vars, cpc, cprev, crec, revoked, holders, crashed, history,
                   calls>>

\* job_service.py:131-137: previous_status = record.status; revoke(task_id, terminate=True)
CancelStart(j) ==
    /\ CancelCallable(j)
    /\ cancels < MaxCancels
    /\ LET record == get(redis_jobs, j) IN
        /\ record # NoRecord
        /\ record.status \notin TerminalStatuses
        /\ cprev' = [cprev EXCEPT ![j] = record.status]
        /\ revoked' = IF record.task_id # None THEN revoked \cup {j} ELSE revoked
    /\ cancels' = cancels + 1
    /\ ccall' = [job_id |-> j, error |-> NoApiError]
    /\ cpc' = [cpc EXCEPT ![j] = "mark"]
    /\ UNCHANGED <<now, redis, disk, enqueue_vars, worker_vars, crec, holders, crashed, history, calls>>

\* job_service.py:138: self.repository.mark_cancel_flag(job_id)
CancelMark(j) ==
    /\ cpc[j] = "mark"
    /\ redis_cancel' = mark_cancel_flag(redis_cancel, j)
    /\ cpc' = [cpc EXCEPT ![j] = "status_get"]
    /\ UNCHANGED <<now, redis_jobs, semaphore, disk, enqueue_vars, worker_vars,
                   cprev, crec, cancels, ccall, revoked, holders, crashed, history, calls>>

\* job_service.py:139-144: update_status(CANCELLED, finished_at=_utcnow(), error="Cancelled")
CancelStatusGet(j) ==
    /\ cpc[j] = "status_get"
    /\ LET record == get(redis_jobs, j) IN
        IF record = NoRecord
        THEN /\ cpc' = [cpc EXCEPT ![j] = "idle"]
             /\ cprev' = [cprev EXCEPT ![j] = None]
             /\ crec' = crec
        ELSE /\ cpc' = [cpc EXCEPT ![j] = "status_save"]
             /\ cprev' = cprev
             /\ crec' = [crec EXCEPT ![j] =
                            update_status(record, CANCELLED, NoTime, now, CANCELLED_MESSAGE)]
    /\ UNCHANGED <<now, redis, disk, enqueue_vars, worker_vars, cancels, ccall, revoked, holders, crashed, history,
                   calls>>

CancelStatusSave(j) ==
    /\ cpc[j] = "status_save"
    /\ redis_jobs' = save(redis_jobs, crec[j])
    /\ crec' = [crec EXCEPT ![j] = NoRecord]
    /\ cpc' = [cpc EXCEPT ![j] = IF cprev[j] = QUEUED THEN "prepare" ELSE "idle"]
    /\ cprev' = [cprev EXCEPT ![j] = None]
    /\ cterminal' = [cterminal EXCEPT ![j] = @ + 1]
    /\ UNCHANGED <<now, redis_cancel, semaphore, disk, enqueue_vars, worker_vars,
                   cancels, ccall, revoked, holders, crashed, wflagged, woutcome, wterminal, calls>>

\* job_service.py:145-146: the argument of cleanup_job, prepare_job_paths(job_id,
\* storage_root), creates the directory tree
CancelPrepare(j) ==
    /\ cpc[j] = "prepare"
    /\ dirs' = prepare_job_paths(dirs, j)
    /\ cpc' = [cpc EXCEPT ![j] = "cleanup"]
    /\ UNCHANGED <<now, redis, files, enqueue_vars, worker_vars, cprev, crec, cancels,
                   ccall, revoked, holders, crashed, history, calls>>

\* job_service.py:146-147: cleanup_job removes the tree; return updated
CancelCleanup(j) ==
    /\ cpc[j] = "cleanup"
    /\ dirs' = cleanup_job(dirs, j)
    /\ files' = [files EXCEPT ![j] = {}]
    /\ cpc' = [cpc EXCEPT ![j] = "idle"]
    /\ UNCHANGED <<now, redis, enqueue_vars, worker_vars, cprev, crec, cancels, ccall, revoked, holders, crashed, history,
                   calls>>

\* revoke(terminate=True) reaches the worker before it starts the task: the task is dropped
RevokeDiscard(j) ==
    /\ j \in revoked
    /\ wpc[j] = "queued"
    /\ wpc' = [wpc EXCEPT ![j] = "discarded"]
    /\ UNCHANGED <<now, redis, disk, enqueue_vars, wrec, windex, wdeadline, wacquired,
                   wreleases, wexc, wret, cancel_vars, holders, crashed, history, calls>>

\* revoke(terminate=True, signal="SIGTERM") reaches the worker while it runs the task:
\* the process running execute is killed where it stands
RevokeTerminate(j) ==
    /\ j \in revoked
    /\ Executing(j)
    /\ wpc' = [wpc EXCEPT ![j] = "killed"]
    /\ UNCHANGED <<now, redis, disk, enqueue_vars, wrec, windex, wdeadline, wacquired,
                   wreleases, wexc, wret, cancel_vars, holders, crashed, history, calls>>

----------------------------------------------------------------------------
(* The specification *)

Enqueue(j) ==
    \/ EnqueueSave(j)
    \/ EnqueueDelay(j)
    \/ EnqueueTaskIdGet(j)
    \/ EnqueueTaskIdSave(j)

Admission(j) ==
    \/ RunJobPrepare(j)
    \/ ExecuteLoad(j)
    \/ ExecuteAttachGet(j)
    \/ ExecuteAttachSave(j)
    \/ ExecuteSave(j)
    \/ ExecuteAttachAgainGet(j)
    \/ ExecuteAttachAgainSave(j)
    \/ ExecuteAcquire(j)
    \/ ExecuteRejectGet(j)
    \/ ExecuteRejectSave(j)
    \/ ExecuteRejectCleanup(j)
    \/ ExecuteRunningGet(j)
    \/ ExecuteRunningSave(j)

RunJob(j) ==
    \/ RunPrepareGet(j)
    \/ RunPrepareSave(j)
    \/ RunWriteInputs(j)
    \/ RunGuardPrepare(j)
    \/ RunGuardLoop(j)
    \/ RunLoopGet(j)
    \/ RunLoopSave(j)
    \/ RunWriteCleaned(j)
    \/ RunWriteResults(j)
    \/ RunFinalizeGet(j)
    \/ RunFinalizeSave(j)
    \/ RunGuardFinalize(j)

Completed(j) ==
    \/ ExecuteCompletedGet(j)
    \/ ExecuteCompletedSave(j)
    \/ ExecuteProgressGet(j)
    \/ ExecuteProgressSave(j)
    \/ ExecuteCompletedCleanup(j)

Cancelled(j) ==
    \/ ExecuteCancelledGet(j)
    \/ ExecuteCancelledSave(j)
    \/ ExecuteCancelledCleanup(j)

TimedOut(j) ==
    \/ ExecuteTimeoutGet(j)
    \/ ExecuteTimeoutSave(j)
    \/ ExecuteTimeoutCleanup(j)

Errored(j) ==
    \/ ExecuteErrorGet(j)
    \/ ExecuteErrorSave(j)
    \/ ExecuteErrorCleanup(j)

Finally(j) ==
    \/ ExecuteFinallyClear(j)
    \/ ExecuteFinallyRelease(j)

Worker(j) ==
    \/ Admission(j)
    \/ RunJob(j)
    \/ Completed(j)
    \/ Cancelled(j)
    \/ TimedOut(j)
    \/ Errored(j)
    \/ Finally(j)

CancelJob(j) ==
    \/ CancelInvalidState(j)
    \/ CancelStart(j)
    \/ CancelMark(j)
    \/ CancelStatusGet(j)
    \/ CancelStatusSave(j)
    \/ CancelPrepare(j)
    \/ CancelCleanup(j)

Revoke(j) == RevokeDiscard(j) \/ RevokeTerminate(j)

\* The whole system: NumJobs jobs submitted, run, cancelled
Next ==
    \/ Tick
    \/ \E j \in Jobs : Enqueue(j)
    \/ \E j \in Jobs : Worker(j)
    \/ \E j \in Jobs : CancelJob(j)
    \/ \E j \in Jobs : Revoke(j)

Spec == Init /\ [][Next]_vars

----------------------------------------------------------------------------
(* The life of one job.  The other jobs of the system touch this job only    *)
(* through the semaphore key, so they are reduced to execute invocations    *)
(* that acquire a permit (runner.py:62) and release it (runner.py:121).     *)

\* runner.py:62-65 of an invocation for a job outside Jobs, admitted
HolderAcquire ==
    /\ holders < MaxHolders
    /\ LET r == acquire_script(semaphore, MaxConcurrentJobs, JobTimeoutSeconds, now) IN
        /\ r.result # 0
        /\ semaphore' = r.sem
    /\ holders' = holders + 1
    /\ UNCHANGED <<now, redis_jobs, redis_cancel, disk, enqueue_vars, worker_vars, cancel_vars, crashed, history,
                   calls>>

\* runner.py:121 of such an invocation
HolderRelease ==
    /\ holders > 0
    /\ semaphore' = release_script(semaphore).sem
    /\ holders' = holders - 1
    /\ UNCHANGED <<now, redis_jobs, redis_cancel, disk, enqueue_vars, worker_vars, cancel_vars, crashed, history,
                   calls>>

\* no other job has been submitted
Alone(j) == \A k \in Jobs \ {j} : epc[k] = "new"

\* one job is submitted (every other action of a job follows from its
\* EnqueueSave), whichever job it is
NextJob ==
    \/ Tick
    \/ HolderAcquire
    \/ HolderRelease
    \/ \E j \in Jobs : Alone(j) /\ EnqueueSave(j)
    \/ \E j \in Jobs : EnqueueDelay(j)
    \/ \E j \in Jobs : EnqueueTaskIdGet(j)
    \/ \E j \in Jobs : EnqueueTaskIdSave(j)
    \/ \E j \in Jobs : Worker(j)
    \/ \E j \in Jobs : CancelJob(j)
    \/ \E j \in Jobs : Revoke(j)

SpecJob == Init /\ [][NextJob]_vars

----------------------------------------------------------------------------
(* Admission of NumJobs jobs that compete for the permits: every job has     *)
(* been submitted (enqueue_job has returned for each at time 0), no worker   *)
(* has started, and nobody calls cancel_job.                                *)

InitDispatched ==
    /\ now = 0
    /\ redis_jobs = [j \in Jobs |->
            to_dict(update_task_id(JobRecord(j, JobType(j), QUEUED, 0), TaskId(j)))]
    /\ redis_cancel = <<>>
    /\ semaphore = NoKey
    /\ dirs = {}
    /\ files = [j \in Jobs |-> {}]
    /\ epc = [j \in Jobs |-> "done"]
    /\ erec = [j \in Jobs |-> NoRecord]
    /\ wpc = [j \in Jobs |-> "queued"]
    /\ wrec = [j \in Jobs |-> NoRecord]
    /\ windex = [j \in Jobs |-> 0]
    /\ wdeadline = [j \in Jobs |-> NoTime]
    /\ wacquired = [j \in Jobs |-> FALSE]
    /\ wreleases = [j \in Jobs |-> 0]
    /\ wexc = [j \in Jobs |-> None]
    /\ wret = [j \in Jobs |-> NoRecord]
    /\ cpc = [j \in Jobs |-> "idle"]
    /\ cprev = [j \in Jobs |-> None]
    /\ crec = [j \in Jobs |-> NoRecord]
    /\ cancels = 0
    /\ ccall = [job_id |-> 0, error |-> NoApiError]
    /\ revoked = {}
    /\ holders = 0
    /\ crashed = 0
    /\ wflagged = [j \in Jobs |-> FALSE]
    /\ woutcome = [j \in Jobs |-> None]
    /\ wterminal = [j \in Jobs |-> 0]
    /\ cterminal = [j \in Jobs |-> 0]
    /\ NoCall

NextAdmission ==
    \/ Tick
    \/ \E j \in Jobs : Admission(j)
    \/ \E j \in Jobs : RunJob(j)
    \/ \E j \in Jobs : Completed(j)
    \/ \E j \in Jobs : TimedOut(j)
    \/ \E j \in Jobs : Finally(j)

SpecAdmission == InitDispatched /\ [][NextAdmission]_vars

----------------------------------------------------------------------------
(* The life of one job on a Redis server whose commands can fail: a command  *)
(* of the repository (jobs.py:121-158, redis-py raises ConnectionError or    *)
(* TimeoutError out of client.get / set / delete / exists) raises instead of *)
(* taking effect, and the exception travels up execute as Python prescribes. *)

\* str(redis.exceptions.ConnectionError)
REDIS_ERROR == "Connection refused"

\* runner.py:78: the update_status(RUNNING) call, after acquire and before try
BeforeTry == {"running_get", "running_save"}

\* runner.py:82-88 and 123-179: the repository calls inside the try block
InsideTry == {"prepare_get", "prepare_save", "guard_prepare", "guard_loop", "loop_get",
              "loop_save", "finalize_get", "finalize_save", "guard_finalize",
              "completed_get", "completed_save", "progress_get", "progress_save"}

\* runner.py:92-97, 101-106, 110-115: the update_status calls of the except clauses
InsideHandler == {"cancelled_get", "cancelled_save", "timeout_get", "timeout_save",
                  "error_get", "error_save"}

\* runner.py:91,100,109: the except clause that caught the failure of the try
\* block has been entered and its update_status is the next call
HandlerEntry == {"cancelled_get", "timeout_get", "error_get"}

\* where the exception of a failed command at position pc takes the invocation
RaiseTarget(pc) ==
    IF pc \in InsideTry THEN "error_get"
    ELSE IF pc \in InsideHandler THEN "finally_clear"
    ELSE "raised"

\* the Redis command the worker is about to issue fails
RedisFault(j) ==
    /\ wpc[j] \in BeforeTry \cup InsideTry \cup InsideHandler \cup {"finally_clear"}
    /\ wpc' = [wpc EXCEPT ![j] = RaiseTarget(wpc[j])]
    /\ wexc' = [wexc EXCEPT ![j] = REDIS_ERROR]
    /\ wrec' = [wrec EXCEPT ![j] = NoRecord]
    /\ woutcome' = IF wpc[j] \in HandlerEntry
                   THEN [woutcome EXCEPT ![j] = wpc[j]]
                   ELSE woutcome
    /\ UNCHANGED <<now, redis, disk, enqueue_vars, windex, wdeadline, wacquired,
                   wreleases, wret, cancel_vars, holders, crashed, wflagged, wterminal,
                   cterminal, calls>>

NextFault ==
    \/ NextJob
    \/ \E j \in Jobs : RedisFault(j)

SpecFault == Init /\ [][NextFault]_vars

----------------------------------------------------------------------------
(* jobs.py:121-128: JobRepository.save and get on their own: a constructed   *)
(* record is saved, over an earlier record of the job or over nothing, read  *)
(* back, and saved once more.                                                *)

Times == 0..MaxTime

\* the values update_progress is given (runner.py:88,137) besides the default
ProgressArgs ==
    {[percent |-> NoPercent, step |-> None, message |-> None],
     [percent |-> 5, step |-> "prepare", message |-> "Preparing inputs"],
     [percent |-> 100, step |-> "completed", message |-> None]}

\* the records the program constructs: JobRecord(job_id, job_type, QUEUED)
\* (tasks.py:40, runner.py:50) and what the repository updates make of it
ConstructedRecords ==
    {update_task_id(
        update_progress(
            update_status(JobRecord(j, JobType(j), QUEUED, c), st, sa, fa, e),
            pr.percent, pr.step, pr.message),
        tid) :
        j \in Jobs, c \in Times, st \in JobStatus, sa \in {NoTime, MaxTime},
        fa \in {NoTime, MaxTime}, e \in {None, CANCELLED_MESSAGE},
        pr \in ProgressArgs, tid \in {None} \cup {TaskId(k) : k \in Jobs}}

InitRoundTrip ==
    /\ InitSystem
    /\ call_args \in [record : ConstructedRecords, stored_before : BOOLEAN]
    /\ call_pc = IF call_args.stored_before THEN "save_earlier" ELSE "save"
    /\ call_result = [got |-> NoRecord, saved |-> <<>>]

\* an earlier save of the job's record, as enqueue_job makes it (tasks.py:40-41)
RoundTripSaveEarlier ==
    /\ call_pc = "save_earlier"
    /\ LET r == call_args.record IN
        redis_jobs' = save(redis_jobs, JobRecord(r.job_id, r.job_type, QUEUED, r.created_at))
    /\ call_pc' = "save"
    /\ UNCHANGED <<now, redis_cancel, semaphore, disk, enqueue_vars, worker_vars,
                   cancel_vars, holders, crashed, history, call_args, call_result>>

\* repository.save(r)
RoundTripSave ==
    /\ call_pc = "save"
    /\ redis_jobs' = save(redis_jobs, call_args.record)
    /\ call_result' = [call_result EXCEPT !.saved = redis_jobs']
    /\ call_pc' = "get"
    /\ UNCHANGED <<now, redis_cancel, semaphore, disk, enqueue_vars, worker_vars,
                   cancel_vars, holders, crashed, history, call_args>>

\* repository.get(r.job_id)
RoundTripGet ==
    /\ call_pc = "get"
    /\ call_result' = [call_result EXCEPT !.got = get(redis_jobs, call_args.record.job_id)]
    /\ call_pc' = "save_again"
    /\ UNCHANGED <<system, call_args>>

\* repository.save(r) a second time
RoundTripSaveAgain ==
    /\ call_pc = "save_again"
    /\ redis_jobs' = save(redis_jobs, call_args.record)
    /\ call_pc' = "saved_twice"
    /\ UNCHANGED <<now, redis_cancel, semaphore, disk, enqueue_vars, worker_vars,
                   cancel_vars, holders, crashed, history, call_args, call_result>>

NextRoundTrip ==
    \/ RoundTripSaveEarlier
    \/ RoundTripSave
    \/ RoundTripGet
    \/ RoundTripSaveAgain

SpecRoundTrip == InitRoundTrip /\ [][NextRoundTrip]_vars

----------------------------------------------------------------------------
(* storage.py:21-26: safe_join on its own.  A path is the sequence of its    *)
(* names from the root; an argument is absolute or relative to the base.     *)

\* the longest argument, in names
MaxParts == 3

Names == {"..", "srv", "jobs", "a", "link"}

PathsUpTo(n) == UNION {[1..k -> Names] : k \in 0..n}

\* the storage roots safe_join is given, one of them not in resolved form
Bases == {<<"srv", "jobs">>, <<"srv", "a", "..", "jobs">>}

\* the file system has one symbolic link, /srv/jobs/link -> /srv/a
readlink(path) == IF path = <<"srv", "jobs", "link">> THEN <<"srv", "a">> ELSE path

RECURSIVE resolve_from(_, _)
\* Path.resolve(): the names are walked from the root, ".." drops the last
\* name (the root is its own parent), a symbolic link is replaced by its target
resolve_from(done, rest) ==
    IF rest = <<>> THEN done
    ELSE LET name == Head(rest)
             next == IF name = ".."
                     THEN (IF done = <<>> THEN <<>> ELSE SubSeq(done, 1, Len(done) - 1))
                     ELSE readlink(Append(done, name))
         IN resolve_from(next, Tail(rest))

resolve(path) == resolve_from(<<>>, path)

\* Path.joinpath: an absolute argument replaces the base
joinpath(base, p) == IF p.absolute THEN p.names ELSE base \o p.names

\* Path.parents: the proper ancestors
parents(path) == {SubSeq(path, 1, k) : k \in 0..(Len(path) - 1)}

\* safe_join that tests the joined path as it stands, before resolve(): a
\* variant that lets ".." climb out of the base
safe_join_unresolved(base, p) ==
    LET base_resolved == resolve(base)
        joined == joinpath(base_resolved, p)
    IN  IF joined = base_resolved \/ base_resolved \in parents(joined)
        THEN [raised |-> FALSE, path |-> resolve(joined)]
        ELSE [raised |-> TRUE, path |-> resolve(joined)]

\* storage.py:21-26; `raised` stands for the ValueError, whose message names
\* the candidate
safe_join(base, p) ==
    LET base_resolved == resolve(base)
        candidate == resolve(joinpath(base_resolved, p))
    IN  IF candidate = base_resolved \/ base_resolved \in parents(candidate)
        THEN [raised |-> FALSE, path |-> candidate]
        ELSE [raised |-> TRUE, path |-> candidate]

InitSafeJoin ==
    /\ InitSystem
    /\ call_pc = "join"
    /\ call_args \in [base : Bases, absolute : BOOLEAN, names : PathsUpTo(MaxParts)]
    /\ call_result = <<>>

SafeJoinCall ==
    /\ call_pc = "join"
    /\ call_result' = safe_join(call_args.base, call_args)
    /\ call_pc' = "joined"
    /\ UNCHANGED <<system, call_args>>

NextSafeJoin == SafeJoinCall

SpecSafeJoin == InitSafeJoin /\ [][NextSafeJoin]_vars

----------------------------------------------------------------------------
(* storage.py:90-132: sweep_expired_jobs on its own.  The storage root holds *)
(* at most one entry per job id; times are counted in hours.                 *)

\* the largest ttl_hours
MaxTtl == 2

\* what the name of a job can be in the storage root: nothing, a directory, a
\* plain file, or a symbolic link to a directory outside the root
Absent == [kind |-> "absent", mtime |-> 0]

Entries ==
    {Absent} \cup [kind : {"dir", "file", "link"}, mtime : Times]

\* ttl_hours: float | int | None
TtlArgs == [given : BOOLEAN, hours : -1..MaxTtl]

\* entry.is_dir(), which follows symbolic links
is_dir(entry) == entry.kind \in {"dir", "link"}

\* storage.py:112-116: safe_join(storage_root, entry.name) raises ValueError
\* for an entry that resolves outside the root
Suspicious(entry) == entry.kind = "link"

\* storage.py:118-125 with `<` for `<=`: a variant that spares a directory
\* whose age is exactly the ttl
should_delete_strict(entry, ttl_hours, reference_time) ==
    IF ttl_hours = 0 THEN TRUE
    ELSE LET cutoff == reference_time - ttl_hours
             modified_time == entry.mtime
         IN  modified_time < cutoff

\* storage.py:118-125
should_delete(entry, ttl_hours, reference_time) ==
    IF ttl_hours = 0 THEN TRUE
    ELSE LET cutoff == reference_time - ttl_hours
             modified_time == entry.mtime
         IN  modified_time <= cutoff

RECURSIVE sweep_from(_, _, _, _, _)
\* storage.py:107-132: the loop over storage_root.iterdir(), from entry k on;
\* `root` is the listing so far and `deleted` the list built so far
sweep_from(k, root, deleted, ttl_hours, reference_time) ==
    IF k > NumJobs THEN [deleted |-> deleted, root |-> root]
    ELSE IF root[k] = Absent \/ ~is_dir(root[k]) \/ Suspicious(root[k])
         THEN sweep_from(k + 1, root, deleted, ttl_hours, reference_time)
    ELSE IF should_delete(root[k], ttl_hours, reference_time)
         THEN sweep_from(k + 1, [root EXCEPT ![k] = Absent], Append(deleted, k),
                         ttl_hours, reference_time)
    ELSE sweep_from(k + 1, root, deleted, ttl_hours, reference_time)

\* storage.py:90-132
sweep_expired_jobs(root, ttl, reference_time) ==
    IF ~ttl.given \/ ttl.hours < 0 THEN [deleted |-> <<>>, root |-> root]
    ELSE sweep_from(1, root, <<>>, ttl.hours, reference_time)

InitSweep ==
    /\ InitSystem
    /\ call_pc = "sweep"
    /\ call_args \in [root : [Jobs -> Entries], ttl_hours : TtlArgs, now : Times]
    /\ call_result = <<>>

SweepCall ==
    /\ call_pc = "sweep"
    /\ call_result' = sweep_expired_jobs(call_args.root, call_args.ttl_hours, call_args.now)
    /\ call_pc' = "swept"
    /\ UNCHANGED <<system, call_args>>

NextSweep == SweepCall

SpecSweep == InitSweep /\ [][NextSweep]_vars

----------------------------------------------------------------------------
(* storage.py:66-87: cleanup_after_completion on its own, on an output       *)
(* directory that holds any of the files below, plots/ and samples/.         *)

\* files that can stand directly in output/: the three a job writes, other
\* intermediates, and names that come close to the patterns without matching
OutputFiles ==
    {<<INPUTS_READY>>, <<DATASET_CLEANED>>, <<RESULTS_JSON>>,
     <<<<"data", "_sampled", ".csv">>>>, <<<<"data", "_sample", ".csv">>>>,
     <<<<"_cleaned", ".csv">>>>, <<<<"cleaned", ".csv">>>>,
     <<<<"data", "_cleaned", ".csv", ".bak">>>>}

\* a subdirectory of output/: absent, empty, or holding the file
Subdirectory(name, file) == {{}, {<<name>>}, {<<name>>, <<name, file>>}}

\* the listings of output/
OutputListings ==
    {top \cup plots \cup samples :
        top \in SUBSET OutputFiles,
        plots \in Subdirectory(PLOTS, <<"plot", "_cleaned", ".csv">>),
        samples \in Subdirectory(SAMPLES, <<"sample", ".csv">>)}

InitCleanup ==
    /\ InitSystem
    /\ call_pc = "cleanup"
    /\ call_args \in [output_dir : OutputListings, clean_all : BOOLEAN]
    /\ call_result = <<>>

\* cleanup_after_completion(job_paths, clean_all); the result is output/ afterwards
CleanupCall ==
    /\ call_pc = "cleanup"
    /\ call_result' = cleanup_after_completion(call_args.output_dir, call_args.clean_all)
    /\ call_pc' = "cleaned"
    /\ UNCHANGED <<system, call_args>>

NextCleanup == CleanupCall

SpecCleanup == InitCleanup /\ [][NextCleanup]_vars

-----------------------------------------------------------------------------
(* core/kw_zip.py: validate_kw_zip. A file name is a sequence of characters,
   an archive is the list of file names zipfile's infolist() returns *)

MaxEntries == 3

GroupNameLimit == 64

\* the characters the file names are written in, in code point order
Alphabet ==
    <<" ", ".", "/", "A", "C", "G", "M", "O", "S", "V", "X", "_",
      "a", "c", "g", "h", "s", "t", "v", "x">>

ord(c) == CHOOSE i \in 1..Len(Alphabet) : Alphabet[i] = c

\* str.lower on one character
lower_char(c) ==
    CASE c = "A" -> "a" [] c = "C" -> "c" [] c = "G" -> "g" [] c = "M" -> "m"
      [] c = "O" -> "o" [] c = "S" -> "s" [] c = "V" -> "v" [] c = "X" -> "x"
      [] OTHER -> c

lower(s) == [i \in 1..Len(s) |-> lower_char(s[i])]

\* the comparison of two strings by sorted()
RECURSIVE str_lt(_, _)
str_lt(a, b) ==
    IF b = <<>> THEN FALSE
    ELSE IF a = <<>> THEN TRUE
    ELSE IF a[1] = b[1] THEN str_lt(Tail(a), Tail(b))
    ELSE ord(a[1]) < ord(b[1])

RECURSIVE sorted(_)
sorted(strings) ==
    IF strings = <<>> THEN <<>>
    ELSE LET rest == sorted(Tail(strings))
             before == SelectSeq(rest, LAMBDA s : str_lt(s, Head(strings)))
             after == SelectSeq(rest, LAMBDA s : ~str_lt(s, Head(strings)))
         IN  before \o <<Head(strings)>> \o after

startswith(s, prefix) ==
    Len(s) >= Len(prefix) /\ SubSeq(s, 1, Len(prefix)) = prefix

RECURSIVE lstrip(_, _)
lstrip(s, chars) ==
    IF s # <<>> /\ Head(s) \in chars THEN lstrip(Tail(s), chars) ELSE s

RECURSIVE rstrip(_, _)
rstrip(s, chars) ==
    IF s # <<>> /\ s[Len(s)] \in chars
    THEN rstrip(SubSeq(s, 1, Len(s) - 1), chars)
    ELSE s

strip(s, chars) == rstrip(lstrip(s, chars), chars)

Whitespace == {" "}

\* the characters of [A-Za-z0-9._-] in the alphabet
GroupNameChars ==
    {"A", "C", "G", "M", "O", "S", "V", "X", "a", "c", "g", "h", "s", "t",
     "v", "x", ".", "_"}

\* re.sub(r"_+", "_", s)
RECURSIVE collapse_underscores(_)
collapse_underscores(s) ==
    IF Len(s) < 2 THEN s
    ELSE IF s[1] = "_" /\ s[2] = "_" THEN collapse_underscores(Tail(s))
    ELSE <<s[1]>> \o collapse_underscores(Tail(s))

_sanitize_group_name(name) ==
    LET trimmed == strip(name, Whitespace)
        replaced == [i \in 1..Len(trimmed) |->
                        IF trimmed[i] \in GroupNameChars THEN trimmed[i] ELSE "_"]
        sanitized == strip(collapse_underscores(replaced), {"_"})
    IN  SubSeq(sanitized, 1,
               IF Len(sanitized) < GroupNameLimit THEN Len(sanitized)
               ELSE GroupNameLimit)

\* the pieces of a file name between its "/" separators
RECURSIVE split(_, _)
split(s, piece) ==
    IF s = <<>> THEN <<piece>>
    ELSE IF Head(s) = "/" THEN <<piece>> \o split(Tail(s), <<>>)
    ELSE split(Tail(s), Append(piece, Head(s)))

\* PurePath(filename).parts: the root if the name is absolute, then the
\* pieces that are neither empty nor "."
parts(filename) ==
    LET anchor == IF startswith(filename, <<"/">>) THEN <<<<"/">>>> ELSE <<>>
    IN  anchor \o SelectSeq(split(filename, <<>>),
                            LAMBDA p : p # <<>> /\ p # <<".">>)

\* PurePath(filename).name
name(filename) ==
    LET ps == parts(filename)
    IN  IF ps = <<>> \/ ps[Len(ps)] = <<"/">> THEN <<>> ELSE ps[Len(ps)]

\* name.rfind("."), counted from 1; 0 when there is no dot
rfind_dot(s) ==
    LET dots == {i \in 1..Len(s) : s[i] = "."}
    IN  IF dots = {} THEN 0 ELSE CHOOSE i \in dots : \A k \in dots : k <= i

suffix(filename) ==
    LET n == name(filename)
        i == rfind_dot(n)
    IN  IF 1 < i /\ i < Len(n) THEN SubSeq(n, i, Len(n)) ELSE <<>>

stem(filename) ==
    LET n == name(filename)
        i == rfind_dot(n)
    IN  IF 1 < i /\ i < Len(n) THEN SubSeq(n, 1, i - 1) ELSE n

\* ZipInfo.is_dir
is_dir_entry(filename) == filename # <<>> /\ filename[Len(filename)] = "/"

IGNORED_PREFIXES == {<<"_", "_", "M", "A", "C", "O", "S", "X", "/">>, <<".">>}

is_csv_entry(filename) ==
    /\ ~is_dir_entry(filename)
    /\ ~\E prefix \in IGNORED_PREFIXES : startswith(filename, prefix)
    /\ LET ps == parts(filename)
       IN  ~\E i \in 1..Len(ps) : startswith(ps[i], <<".">>)
    /\ lower(suffix(filename)) = <<".", "c", "s", "v">>

_iter_csv_entries(infolist) == SelectSeq(infolist, is_csv_entry)

has_folder_csv(csv_entries) ==
    \E i \in 1..Len(csv_entries) : Len(parts(csv_entries[i])) > 1

has_root_csv_never(csv_entries) == FALSE

has_root_csv(csv_entries) ==
    \E i \in 1..Len(csv_entries) : Len(parts(csv_entries[i])) = 1

collides_always(normalized_sources, normalized, source) ==
    normalized \in DOMAIN normalized_sources

\* previous_source is not None and previous_source != source
collides(normalized_sources, normalized, source) ==
    /\ normalized \in DOMAIN normalized_sources
    /\ normalized_sources[normalized] # source

\* dict.setdefault(key, value) on normalized_sources
setdefault(dict, key, value) ==
    IF key \in DOMAIN dict THEN dict ELSE dict @@ (key :> value)

\* groups.setdefault(group, []).append(filename); groups keeps the order in
\* which its keys were inserted
append_to_group(groups, group, filename) ==
    IF \E i \in 1..Len(groups) : groups[i].name = group
    THEN [i \in 1..Len(groups) |->
            IF groups[i].name = group
            THEN [groups[i] EXCEPT !.files = Append(@, filename)]
            ELSE groups[i]]
    ELSE Append(groups, [name |-> group, files |-> <<filename>>])

NoSources == [k \in {} |-> <<>>]

\* the loop over csv_entries of either layout, from entry i on
RECURSIVE collect_groups(_, _, _, _, _)
collect_groups(layout, csv_entries, i, normalized_sources, groups) ==
    IF i > Len(csv_entries) THEN [raised |-> None, groups |-> groups]
    ELSE
        LET filename == csv_entries[i]
            nested == Len(parts(filename)) > 1
            source == IF layout = "A" THEN parts(filename)[1] ELSE stem(filename)
            group == _sanitize_group_name(source)
            normalized == lower(group)
        IN  IF layout = "B" /\ nested
            THEN [raised |-> "INVALID_KW_ZIP_LAYOUT", groups |-> <<>>]
            ELSE IF collides(normalized_sources, normalized, source)
            THEN [raised |-> "DUPLICATE_GROUP_NAME", groups |-> <<>>]
            ELSE collect_groups(layout, csv_entries, i + 1,
                                setdefault(normalized_sources, normalized, source),
                                append_to_group(groups, group, filename))

_ensure_group_rules_any_count(groups) ==
    LET keys == {groups[i].name : i \in 1..Len(groups)}
    IN  IF <<>> \in keys THEN "INVALID_GROUP_NAME"
        ELSE IF Cardinality({lower(key) : key \in keys}) # Len(groups)
        THEN "DUPLICATE_GROUP_NAME"
        ELSE IF \E i \in 1..Len(groups) : Len(groups[i].files) = 0
        THEN "EMPTY_GROUP"
        ELSE None

_ensure_group_rules_min_one(groups) ==
    LET keys == {groups[i].name : i \in 1..Len(groups)}
    IN  IF <<>> \in keys THEN "INVALID_GROUP_NAME"
        ELSE IF Cardinality({lower(key) : key \in keys}) # Len(groups)
        THEN "DUPLICATE_GROUP_NAME"
        ELSE IF Len(groups) < 1 THEN "INSUFFICIENT_GROUPS"
        ELSE IF \E i \in 1..Len(groups) : Len(groups[i].files) = 0
        THEN "EMPTY_GROUP"
        ELSE None

\* the code of the error raised, None when the rules hold
_ensure_group_rules(groups) ==
    LET keys == {groups[i].name : i \in 1..Len(groups)}
    IN  IF <<>> \in keys THEN "INVALID_GROUP_NAME"
        ELSE IF Cardinality({lower(key) : key \in keys}) # Len(groups)
        THEN "DUPLICATE_GROUP_NAME"
        ELSE IF Len(groups) < 2 THEN "INSUFFICIENT_GROUPS"
        ELSE IF \E i \in 1..Len(groups) : Len(groups[i].files) = 0
        THEN "EMPTY_GROUP"
        ELSE None

KWZipValidationError(code) == [raised |-> code, layout |-> None, groups |-> <<>>]

\* KWZipLayout(layout, [KWGroup(name, sorted(files)) for ... in sorted(groups.items())])
KWZipLayout(layout, groups) ==
    LET names == sorted([i \in 1..Len(groups) |-> groups[i].name])
        files_of(group) ==
            LET i == CHOOSE k \in 1..Len(groups) : groups[k].name = group
            IN  groups[i].files
    IN  [raised |-> None,
         layout |-> layout,
         groups |-> [i \in 1..Len(names) |->
                        [name |-> names[i], files |-> sorted(files_of(names[i]))]]]

\* raw_bytes is either not an archive or the archive with the listed entries
validate_kw_zip(raw_bytes) ==
    IF ~raw_bytes.is_zip THEN KWZipValidationError("INVALID_ZIP")
    ELSE
        LET csv_entries == _iter_csv_entries(raw_bytes.infolist)
            layout == IF has_folder_csv(csv_entries) THEN "A" ELSE "B"
            collected == collect_groups(layout, csv_entries, 1, NoSources, <<>>)
        IN  IF csv_entries = <<>>
            THEN KWZipValidationError("INVALID_KW_ZIP_LAYOUT")
            ELSE IF has_folder_csv(csv_entries) /\ has_root_csv(csv_entries)
            THEN KWZipValidationError("MIXED_KW_ZIP_LAYOUT")
            ELSE IF collected.raised # None
            THEN KWZipValidationError(collected.raised)
            ELSE IF _ensure_group_rules(collected.groups) # None
            THEN KWZipValidationError(_ensure_group_rules(collected.groups))
            ELSE KWZipLayout(layout, collected.groups)

\* the sources of groups: folder names and file stems
Sources ==
    {<<"g">>, <<"G">>, <<"h">>, <<" ", "g">>, <<"g", " ", "h">>,
     <<"g", "_", "h">>, <<"_">>}

\* entries of the flat layout, of the nested layout, and entries that are
\* filtered out
RootEntries == {s \o <<".", "c", "s", "v">> : s \in Sources}
                   \cup {<<"g", ".", "C", "S", "V">>}

NestedEntries == {s \o <<"/", "a", ".", "c", "s", "v">> : s \in Sources}
                     \cup {<<"g", "/", "s", "/", "a", ".", "c", "s", "v">>}

OtherEntries ==
    {<<"g", "/">>,
     <<"g", ".", "t", "x", "t">>,
     <<".", "g", ".", "c", "s", "v">>,
     <<"h", "/", ".", "s", "/", "a", ".", "c", "s", "v">>,
     <<"_", "_", "M", "A", "C", "O", "S", "X", "/", "a", ".", "c", "s", "v">>}

FileNames == RootEntries \cup NestedEntries \cup OtherEntries

RECURSIVE InfoLists(_)
InfoLists(n) ==
    IF n = 0 THEN {<<>>}
    ELSE LET shorter == InfoLists(n - 1)
         IN  shorter \cup {Append(l, f) : l \in shorter, f \in FileNames}

RawBytes ==
    {[is_zip |-> FALSE, infolist |-> <<>>]}
        \cup {[is_zip |-> TRUE, infolist |-> l] : l \in InfoLists(MaxEntries)}

InitKwZip ==
    /\ InitSystem
    /\ call_pc = "validate_kw_zip"
    /\ call_args \in [raw_bytes : RawBytes]
    /\ call_result = <<>>

\* validate_kw_zip(raw_bytes)
KwZipCall ==
    /\ call_pc = "validate_kw_zip"
    /\ call_result' = validate_kw_zip(call_args.raw_bytes)
    /\ call_pc' = "validated"
    /\ UNCHANGED <<system, call_args>>

NextKwZip == KwZipCall

SpecKwZip == InitKwZip /\ [][NextKwZip]_vars

-----------------------------------------------------------------------------
(* jobs.py:196-226: JobSemaphore.acquire and release on their own, applied   *)
(* at time now to a key that is absent or holds a counter with an expiry     *)
(* that has not been reached.                                                *)

MaxCounter == 3
MaxLimit == 2
MaxTtlSeconds == 2

\* the key job:semaphore at time t: absent, or a counter that Redis has not
\* expired yet
SemaphoreKeys(t) ==
    {NoKey} \cup {SemKey(value, expire_at) :
                    value \in 0..MaxCounter,
                    expire_at \in (t + 1)..(MaxTime + MaxTtlSeconds)}

\* limit is settings.max_concurrent_jobs (config.py:72-74, ge=1), ttl_seconds
\* is settings.job_timeout_seconds (config.py:67-69, gt=0)
SemaphoreArgs ==
    {[sem |-> sem, limit |-> limit, ttl_seconds |-> ttl, now |-> t] :
        <<sem, limit, ttl, t>> \in
            {<<sem, limit, ttl, t>> \in
                (UNION {SemaphoreKeys(t) : t \in Times}) \X (1..MaxLimit)
                    \X (1..MaxTtlSeconds) \X Times :
                sem \in SemaphoreKeys(t)}}

InitSemaphore ==
    /\ InitSystem
    /\ call_pc = "semaphore"
    /\ call_args \in SemaphoreArgs
    /\ call_result = <<>>

\* semaphore.acquire(limit, ttl_seconds=ttl_seconds)
SemaphoreAcquireCall ==
    /\ call_pc = "semaphore"
    /\ call_result' = acquire(call_args.sem, call_args.limit,
                              call_args.ttl_seconds, call_args.now)
    /\ call_pc' = "acquired"
    /\ UNCHANGED <<system, call_args>>

\* semaphore.release()
SemaphoreReleaseCall ==
    /\ call_pc = "semaphore"
    /\ call_result' = [sem |-> release(call_args.sem)]
    /\ call_pc' = "released"
    /\ UNCHANGED <<system, call_args>>

NextSemaphore == SemaphoreAcquireCall \/ SemaphoreReleaseCall

SpecSemaphore == InitSemaphore /\ [][NextSemaphore]_vars

-----------------------------------------------------------------------------
(* jobs.py:108-186: the methods of JobRepository on their own, on the Redis  *)
(* keys they derive from the job id: the store maps a key to its value.      *)

\* f"{namespace}:{job_id}" and f"{namespace}:{job_id}:cancel", namespace "job"
_job_key(job_id) == <<"job", ":", job_id>>

_cancel_key(job_id) == <<"job", ":", job_id, ":", "cancel">>

\* Redis SET and DEL
SET(store, key, value) ==
    [k \in DOMAIN store \cup {key} |-> IF k = key THEN value ELSE store[k]]

DEL(store, key) == [k \in DOMAIN store \ {key} |-> store[k]]

\* int("1")
int(flag) == IF flag = "1" THEN 1 ELSE 0

\* JobRepository.get: JobRecord.from_json(redis.get(key)), None for no value
JobRepository_get(store, job_id) ==
    IF _job_key(job_id) \in DOMAIN store
    THEN from_dict(store[_job_key(job_id)])
    ELSE NoRecord

\* save that also deletes the cancel key: a variant in which storing a record
\* withdraws a requested cancellation
JobRepository_save_clearing(store, record) ==
    DEL(SET(store, _job_key(record.job_id), to_dict(record)),
        _cancel_key(record.job_id))

JobRepository_save(store, record) ==
    SET(store, _job_key(record.job_id), to_dict(record))

JobRepository_mark_cancel_flag(store, job_id) == SET(store, _cancel_key(job_id), "1")

JobRepository_clear_cancel_flag(store, job_id) == DEL(store, _cancel_key(job_id))

JobRepository_is_cancel_requested(store, job_id) ==
    IF _cancel_key(job_id) \in DOMAIN store
    THEN int(store[_cancel_key(job_id)]) # 0
    ELSE FALSE

\* an update that stores a fresh QUEUED record when it finds none: a variant
\* that creates the record it was to change
fetch_mutate_store_or_create(store, job_id, mutated) ==
    IF JobRepository_get(store, job_id) = NoRecord
    THEN [raised |-> None,
          store |-> JobRepository_save(store, JobRecord(job_id, JobType(job_id), QUEUED, 0))]
    ELSE [raised |-> None, store |-> JobRepository_save(store, mutated)]

\* the frame of update_status, update_progress and update_task_id: get, raise
\* KeyError for no record, save the mutated record
fetch_mutate_store(store, job_id, mutated) ==
    IF JobRepository_get(store, job_id) = NoRecord
    THEN [raised |-> "KeyError", store |-> store]
    ELSE [raised |-> None, store |-> JobRepository_save(store, mutated)]

JobRepository_update_status(store, job_id, status, started_at, finished_at, error) ==
    fetch_mutate_store(store, job_id,
        update_status(JobRepository_get(store, job_id), status, started_at,
                      finished_at, error))

JobRepository_update_progress(store, job_id, percent, step, message) ==
    fetch_mutate_store(store, job_id,
        update_progress(JobRepository_get(store, job_id), percent, step, message))

JobRepository_update_task_id(store, job_id, task_id) ==
    fetch_mutate_store(store, job_id,
        update_task_id(JobRepository_get(store, job_id), task_id))

\* what the keys of one job hold: no record, the record enqueue_job stores or
\* the record of a running job; no flag or the flag
StoredValues(j) ==
    {<<>>,
     <<to_dict(JobRecord(j, JobType(j), QUEUED, 0))>>,
     <<to_dict(update_status(JobRecord(j, JobType(j), QUEUED, 0), RUNNING, 1, NoTime, None))>>}

RECURSIVE Stores(_)
Stores(n) ==
    IF n = 0 THEN {<<>>}
    ELSE {LET with_record == IF value = <<>> THEN store
                             ELSE SET(store, _job_key(n), value[1])
          IN  IF flagged THEN SET(with_record, _cancel_key(n), "1") ELSE with_record :
            store \in Stores(n - 1), value \in StoredValues(n), flagged \in BOOLEAN}

InitRepository ==
    /\ InitSystem
    /\ call_pc = "repository"
    /\ call_args \in [store : Stores(NumJobs), job_id : Jobs]
    /\ call_result = <<>>

\* the end of a call of a repository method
RepositoryReturn(method, result) ==
    /\ call_pc = "repository"
    /\ call_result' = result
    /\ call_pc' = method
    /\ UNCHANGED <<system, call_args>>

\* repository.save(record)
RepositorySaveCall ==
    \E t \in Times :
        RepositoryReturn("save",
            [raised |-> None,
             store |-> JobRepository_save(call_args.store,
                           JobRecord(call_args.job_id, JobType(call_args.job_id), QUEUED, t))])

\* repository.update_status(job_id, status, ...) as execute and cancel_job call it
RepositoryUpdateStatusCall ==
    \E t \in Times :
        \/ RepositoryReturn("update_status",
              JobRepository_update_status(call_args.store, call_args.job_id,
                                          RUNNING, t, NoTime, None))
        \/ RepositoryReturn("update_status",
              JobRepository_update_status(call_args.store, call_args.job_id,
                                          CANCELLED, NoTime, t, CANCELLED_MESSAGE))

\* repository.update_progress(job_id, percent=..., step=..., message=...)
RepositoryUpdateProgressCall ==
    \E pr \in ProgressArgs :
        RepositoryReturn("update_progress",
            JobRepository_update_progress(call_args.store, call_args.job_id,
                                          pr.percent, pr.step, pr.message))

\* repository.update_task_id(job_id, task_id)
RepositoryUpdateTaskIdCall ==
    RepositoryReturn("update_task_id",
        JobRepository_update_task_id(call_args.store, call_args.job_id,
                                     TaskId(call_args.job_id)))

\* repository.mark_cancel_flag(job_id)
RepositoryMarkCall ==
    RepositoryReturn("mark_cancel_flag",
        [raised |-> None,
         store |-> JobRepository_mark_cancel_flag(call_args.store, call_args.job_id)])

\* repository.clear_cancel_flag(job_id)
RepositoryClearCall ==
    RepositoryReturn("clear_cancel_flag",
        [raised |-> None,
         store |-> JobRepository_clear_cancel_flag(call_args.store, call_args.job_id)])

NextRepository ==
    \/ RepositorySaveCall
    \/ RepositoryUpdateStatusCall
    \/ RepositoryUpdateProgressCall
    \/ RepositoryUpdateTaskIdCall
    \/ RepositoryMarkCall
    \/ RepositoryClearCall

SpecRepository == InitRepository /\ [][NextRepository]_vars

-----------------------------------------------------------------------------
(* jobs.py:196-226, runner.py:62-121: the permits over unbounded time.       *)
(* Invocations of execute acquire and release; one that is killed while it   *)
(* holds a permit (SIGTERM by revoke, a crashed worker) never releases.  The *)
(* expiry of the key is kept relative to the present: now stays 0 and a      *)
(* second that passes moves expire_at one down.                              *)

MaxCrashed == 2
MaxInvocations == 3

\* one second passes: the key loses a second of its life and is removed by
\* Redis when none is left
elapse(sem) ==
    IF sem = NoKey \/ SemExpireAt(sem) = NoTime THEN sem
    ELSE expire(SemKey(SemCurrent(sem), SemExpireAt(sem) - 1), 0)

\* the settings of the deployment: max_concurrent_jobs and job_timeout_seconds
InitLeak ==
    /\ InitSystem
    /\ call_pc = "workload"
    /\ call_args \in [limit : 1..MaxLimit, ttl_seconds : 1..MaxTtlSeconds]
    /\ call_result = <<>>

\* runner.py:62-65: an invocation asks for a permit
LeakAcquire ==
    /\ holders < MaxInvocations
    /\ LET r == acquire_script(semaphore, call_args.limit, call_args.ttl_seconds, now) IN
        /\ semaphore' = r.sem
        /\ holders' = IF r.result # 0 THEN holders + 1 ELSE holders
    /\ UNCHANGED <<now, redis_jobs, redis_cancel, disk, enqueue_vars, worker_vars,
                   cancel_vars, crashed, history, calls>>

\* runner.py:119-121: an invocation that holds a permit releases it
LeakRelease ==
    /\ holders > 0
    /\ semaphore' = release_script(semaphore).sem
    /\ holders' = holders - 1
    /\ UNCHANGED <<now, redis_jobs, redis_cancel, disk, enqueue_vars, worker_vars,
                   cancel_vars, crashed, history, calls>>

\* an invocation that holds a permit is killed: its finally block never runs
LeakCrash ==
    /\ holders > 0
    /\ crashed < MaxCrashed
    /\ holders' = holders - 1
    /\ crashed' = crashed + 1
    /\ UNCHANGED <<now, redis, disk, enqueue_vars, worker_vars, cancel_vars,
                   history, calls>>

\* a second passes
LeakElapse ==
    /\ semaphore' = elapse(semaphore)
    /\ UNCHANGED <<now, redis_jobs, redis_cancel, disk, enqueue_vars, worker_vars,
                   cancel_vars, holders, crashed, history, calls>>

NextLeak == LeakAcquire \/ LeakRelease \/ LeakCrash \/ LeakElapse

\* time passes whatever the workload does
SpecLeak == InitLeak /\ [][NextLeak]_vars /\ WF_vars(LeakElapse)

-----------------------------------------------------------------------------
(* kw_zip.py:35-39: _sanitize_group_name on its own, applied to names on     *)
(* both sides of the limit of 64 characters: a run of one letter between a   *)
(* short beginning and a short ending.                                       *)

MaxRun == 66
MaxEnding == 3

RECURSIVE Repeat(_, _)
Repeat(c, n) == IF n = 0 THEN <<>> ELSE <<c>> \o Repeat(c, n - 1)

\* a letter, an underscore, white space, a character outside [A-Za-z0-9._-]
EndingChars == {"g", "_", " ", "/"}

RECURSIVE Endings(_)
Endings(n) ==
    IF n = 0 THEN {<<>>}
    ELSE LET shorter == Endings(n - 1)
         IN  shorter \cup {Append(e, c) : e \in shorter, c \in EndingChars}

GroupNameInputs ==
    {b \o Repeat("g", n) \o e : b \in Endings(1), n \in 0..MaxRun, e \in Endings(MaxEnding)}

InitSanitize ==
    /\ InitSystem
    /\ call_pc = "_sanitize_group_name"
    /\ call_args \in [name : GroupNameInputs]
    /\ call_result = <<>>

\* kw_zip.py:81,97: group = _sanitize_group_name(...)
SanitizeCall ==
    /\ call_pc = "_sanitize_group_name"
    /\ call_result' = _sanitize_group_name(call_args.name)
    /\ call_pc' = "sanitized"
    /\ UNCHANGED <<system, call_args>>

NextSanitize == SanitizeCall

SpecSanitize == InitSanitize /\ [][NextSanitize]_vars

----------------------------------------------------------------------------
(* The claims of the specification *)

\* the jobs whose execute invocation holds a permit: acquire returned True and
\* release has not run
Outstanding == {j \in Jobs : wacquired[j] /\ wreleases[j] = 0}

OutstandingPermits == Cardinality(Outstanding) + holders

\* the jobs whose stored record has status RUNNING
RunningJobs == {j \in DOMAIN redis_jobs : StoredStatus(j) = RUNNING}

\* C1: for any interleaving of acquire(limit = N) and release() calls, release
\* only after a successful acquire, the number of outstanding permits never
\* exceeds N.
C1_PermitsWithinLimit == OutstandingPermits <= MaxConcurrentJobs

\* C2: at every moment the number of jobs whose stored status is RUNNING is at
\* most max_concurrent_jobs.
C2_RunningWithinLimit == Cardinality(RunningJobs) <= MaxConcurrentJobs

\* C3: once a job's stored status is COMPLETED, FAILED or CANCELLED, no later
\* step (execute, enqueue_job, update_status, update_progress, update_task_id)
\* changes that status.
C3_TerminalStatusIsFinal ==
    [][\A j \in DOMAIN redis_jobs :
          StoredStatus(j) \in TerminalStatuses
              => /\ j \in DOMAIN redis_jobs'
                 /\ get(redis_jobs', j).status = StoredStatus(j)]_vars

\* the execute invocation of job j has left execute, by return or by exception
Exited(j) == wpc[j] \in {"returned", "raised"}

\* C4: an invocation of execute that has exited has written a terminal status
\* exactly once, and no job undergoes two terminal transitions, whoever
\* writes them.
C4_OneTerminalTransition ==
    \A j \in Jobs :
        /\ Exited(j) => wterminal[j] = 1
        /\ wterminal[j] + cterminal[j] <= 1

\* C5: an invocation that acquired a permit and has exited, by return or by an
\* exception of any repository or cleanup step, has released exactly once.
C5_ReleasedExactlyOnce ==
    \A j \in Jobs : (Exited(j) /\ wacquired[j]) => wreleases[j] = 1

\* C6: at the moment an execute invocation returns, the denial path included,
\* the job's cancellation flag is not set.
C6_FlagClearedOnReturn ==
    [][\A j \in Jobs :
          (wpc[j] # "returned" /\ wpc'[j] = "returned")
              => ~is_cancel_requested(redis_cancel', j)]_vars

\* every call made for job j has finished: enqueue_job returned, the worker's
\* execute returned, no cancel_job is under way
Settled(j) == epc[j] = "done" /\ wpc[j] = "returned" /\ cpc[j] = "idle"

\* C7: every enqueued job whose worker keeps taking steps reaches a terminal
\* status and stays there; once every call made for the job has returned, the
\* stored status is therefore terminal.
C7_SettledIsTerminal ==
    \A j \in Jobs : Settled(j) => StoredStatus(j) \in TerminalStatuses

\* the positions of an invocation that has not yet called acquire
BeforeAcquire == {"none", "queued", "load", "attach_get", "attach_save", "save",
                  "attach2_get", "attach2_save", "acquire"}

Admitted == {j \in Jobs : wacquired[j]}

Denied == {j \in Jobs : wpc[j] \notin BeforeAcquire /\ ~wacquired[j]}

\* every job has attempted admission and none has released
AllAttemptedNoneReleased ==
    /\ \A j \in Jobs : wpc[j] \notin BeforeAcquire
    /\ \A j \in Jobs : wreleases[j] = 0

\* C8: when K > max_concurrent_jobs executions all attempt admission before any
\* of them releases, exactly max_concurrent_jobs of them are admitted to RUNNING;
\* an execution whose acquire is denied returns FAILED with error "Concurrency
\* limit reached", its job directory removed, and its record is never RUNNING.
C8_AdmissionBeforeRelease ==
    /\ AllAttemptedNoneReleased => Cardinality(Admitted) = MaxConcurrentJobs
    /\ \A j \in Jobs : ~wacquired[j] => StoredStatus(j) # RUNNING
    /\ \A j \in Denied :
          wpc[j] = "returned" =>
              /\ wret[j].status = FAILED
              /\ wret[j].error = CONCURRENCY_LIMIT_REACHED
              /\ StoredStatus(j) = FAILED
              /\ j \notin dirs

\* the job's root directory does not exist, or the one thing that stands in
\* its way is a cancel_job call between its prepare_job_paths and its
\* cleanup_job (job_service.py:146), which removes the tree it has just made
GoneOrBeingRemoved(j) == j \notin dirs \/ cpc[j] = "cleanup"

\* C9 as the specification states it: if the cancellation flag of a QUEUED job
\* is set before execute starts running it, execute returns a record with
\* status CANCELLED and error "Cancelled", and the job's root directory no
\* longer exists.
C9_FlaggedReturnsCancelled ==
    \A j \in Jobs :
        (wpc[j] = "returned" /\ wflagged[j]) =>
            /\ wret[j].status = CANCELLED
            /\ wret[j].error = CANCELLED_MESSAGE
            /\ j \notin dirs

\* C9, amended: if the flag is set before execute starts, execute returns
\* CANCELLED with error "Cancelled", unless admission was denied (FAILED,
\* "Concurrency limit reached") or the job directory was removed under the
\* invocation before an artifact write (FAILED with the error of the write);
\* the job's root directory no longer exists, unless the cancel_job call that
\* is cleaning up has just re-created it and is about to remove it.
C9_FlaggedReturnsCancelledOrFailed ==
    \A j \in Jobs :
        (wpc[j] = "returned" /\ wflagged[j]) =>
            /\ \/ /\ wacquired[j]
                  /\ wret[j].status = CANCELLED
                  /\ wret[j].error = CANCELLED_MESSAGE
               \/ /\ ~wacquired[j]
                  /\ wret[j].status = FAILED
                  /\ wret[j].error = CONCURRENCY_LIMIT_REACHED
               \/ /\ wacquired[j]
                  /\ wret[j].status = FAILED
                  /\ wret[j].error = NO_SUCH_FILE
            /\ GoneOrBeingRemoved(j)

\* a flagged job went through a guard and returned CANCELLED, its directory gone
C9_Witness ==
    \E j \in Jobs :
        /\ wpc[j] = "returned"
        /\ wflagged[j]
        /\ woutcome[j] = "cancelled_get"
        /\ wret[j].status = CANCELLED
        /\ j \notin dirs

\* "timeout" in error.lower()
MentionsTimeout(error) == error = TIMEOUT_MESSAGE

\* the invocation of job j has returned through `except JobTimeoutError`: a
\* guard saw the clock past the deadline and no cancellation flag
ReturnedFromTimeout(j) == wpc[j] = "returned" /\ woutcome[j] = "timeout_get"

Caught(j) == woutcome[j]

\* the messages of the failures the executor raises besides the two signals
\* (str(exc) of runner.py:115)
ExecutorErrors == {NO_SUCH_FILE, JOB_NOT_FOUND, REDIS_ERROR}

\* C11: any failure raised during the execution phase of execute (cancellation
\* signal, timeout signal, any other exception of the executor) is converted
\* into a terminal record, CANCELLED or FAILED with the failure's message, and
\* is never propagated as an exception to the caller of execute.
C11_FailureBecomesTerminalRecord ==
    \A j \in Jobs :
        (Caught(j) # None /\ Exited(j)) =>
            /\ wpc[j] = "returned"
            /\ Caught(j) = "cancelled_get" =>
                    wret[j].status = CANCELLED /\ wret[j].error = CANCELLED_MESSAGE
            /\ Caught(j) = "timeout_get" =>
                    wret[j].status = FAILED /\ wret[j].error = TIMEOUT_MESSAGE
            /\ Caught(j) = "error_get" =>
                    wret[j].status = FAILED /\ wret[j].error \in ExecutorErrors

\* execute has returned a record whose status is terminal and not COMPLETED
ReturnedUnsuccessful(j) ==
    wpc[j] = "returned" /\ wret[j].status \in {FAILED, CANCELLED}

\* the step by which job j's invocation returns such a record
ReturnsUnsuccessful(j) ==
    /\ wpc[j] # "returned"
    /\ wpc'[j] = "returned"
    /\ wret'[j].status \in {FAILED, CANCELLED}

CancelOfTerminal ==
    /\ cancels' = cancels + 1
    /\ StoredStatus(ccall'.job_id) \in TerminalStatuses

\* C13: cancel_job on a job whose stored status is COMPLETED, FAILED or
\* CANCELLED fails with INVALID_STATE (HTTP 409) and has no effect: the stored
\* record, the cancellation flag and the job directory are left unchanged.
C13_CancelOfTerminalRejected ==
    [][CancelOfTerminal =>
          /\ ccall'.error = INVALID_STATE
          /\ cpc' = cpc
          /\ UNCHANGED <<redis_jobs, redis_cancel, dirs, files>>]_vars

\* cancel_job was called on a job in a terminal status and raised INVALID_STATE
C13_Witness ==
    /\ cancels > 0
    /\ ccall.error = INVALID_STATE
    /\ StoredStatus(ccall.job_id) \in TerminalStatuses
    /\ cpc[ccall.job_id] = "idle"

\* the JobRecords the repository holds: what get returns for each stored key
StoredRecords == {get(redis_jobs, j) : j \in DOMAIN redis_jobs}

\* C14: in every reachable stored JobRecord, finished_at is non-null if and
\* only if status is COMPLETED, FAILED or CANCELLED.
C14_FinishedIffTerminal ==
    \A r \in StoredRecords :
        (r.finished_at # NoTime) <=> (r.status \in TerminalStatuses)

\* C15: in every reachable stored JobRecord, error is a non-null message
\* whenever status is FAILED or CANCELLED, and error is null whenever status is
\* QUEUED, RUNNING or COMPLETED.
C15_ErrorIffUnsuccessful ==
    \A r \in StoredRecords :
        /\ r.status \in {FAILED, CANCELLED} => r.error # None
        /\ r.status \in {QUEUED, RUNNING, COMPLETED} => r.error = None

\* a record that cancel_job made CANCELLED with error "Cancelled" has been made
\* RUNNING by the worker's update_status, which reset error to null
C15_Witness ==
    \E r \in StoredRecords :
        r.status = RUNNING /\ r.finished_at # NoTime /\ r.error = None

\* the step by which job j's invocation returns from the try block
\* (runner.py:90), no except clause having run
ReturnsNormally(j) ==
    /\ wpc[j] = "finally_release"
    /\ wpc'[j] = "returned"
    /\ wacquired[j]
    /\ Caught(j) = None

\* C16: when execute ends on the normal-return path, the stored record has
\* status COMPLETED, a non-null finished_at, progress.percent = 100 and
\* progress.step = "completed".
C16_NormalReturnStoresCompleted ==
    [][\A j \in Jobs :
          ReturnsNormally(j) =>
              LET r == get(redis_jobs', j) IN
                  /\ r.status = COMPLETED
                  /\ r.finished_at # NoTime
                  /\ r.progress.percent = 100
                  /\ r.progress.step = "completed"]_vars

Inside(base, path) ==
    /\ Len(path) >= Len(base)
    /\ SubSeq(path, 1, Len(base)) = base

\* C18: safe_join(base, p) raises a path-traversal error for every p whose
\* resolved path is neither base nor nested under base (for example
\* "../escape" or an absolute path outside base), and returns the resolved
\* path for every p that resolves to base or inside it.
C18_SafeJoinConfines ==
    call_pc = "joined" =>
        LET base == resolve(call_args.base)
            resolved == resolve(joinpath(base, call_args))
        IN  /\ ~Inside(base, resolved) => call_result.raised
            /\ Inside(base, resolved) =>
                  ~call_result.raised /\ call_result.path = resolved

\* safe_join(/srv/jobs, "../a") has raised
C18_Witness ==
    /\ call_pc = "joined"
    /\ call_args.base = <<"srv", "jobs">>
    /\ ~call_args.absolute
    /\ call_args.names = <<"..", "a">>
    /\ call_result.raised

\* the top-level job directories of the storage root
JobDirectories(root) == {j \in Jobs : root[j].kind = "dir"}

\* the directories sweep_expired_jobs is to delete
Expired(root, ttl, t) ==
    IF ~ttl.given \/ ttl.hours < 0 THEN {}
    ELSE IF ttl.hours = 0 THEN JobDirectories(root)
    ELSE {j \in JobDirectories(root) : t - root[j].mtime >= ttl.hours}

\* C19: sweep_expired_jobs(storageRoot, ttlHours, now) deletes exactly the
\* top-level job directories whose age (now minus last-modified time) is
\* greater than or equal to ttlHours; with ttlHours = 0 it deletes every
\* top-level directory; with a negative or absent ttlHours it deletes nothing;
\* the returned list is exactly the set of deleted directories.
C19_SweepDeletesExpired ==
    call_pc = "swept" =>
        LET expired == Expired(call_args.root, call_args.ttl_hours, call_args.now)
            returned == {call_result.deleted[i] : i \in DOMAIN call_result.deleted}
        IN  /\ \A j \in Jobs :
                  call_result.root[j] = IF j \in expired THEN Absent ELSE call_args.root[j]
            /\ returned = expired
            /\ Len(call_result.deleted) = Cardinality(expired)

\* a sweep with a positive ttl has deleted a directory whose age is exactly the
\* ttl and has kept a younger one
C19_Witness ==
    /\ call_pc = "swept"
    /\ call_args.ttl_hours.given
    /\ call_args.ttl_hours.hours > 0
    /\ \E j \in Jobs :
          /\ call_args.root[j].kind = "dir"
          /\ call_args.now - call_args.root[j].mtime = call_args.ttl_hours.hours
          /\ call_result.root[j] = Absent
    /\ \E j \in Jobs :
          /\ call_args.root[j].kind = "dir"
          /\ call_result.root[j] = call_args.root[j]

\* the entry is an intermediate artifact: a file directly in output/ named
\* *_cleaned.csv, *_sampled.csv or *_sample.csv, or samples/ and what is in it
IsIntermediate(path) ==
    \/ /\ Len(path) = 1
       /\ Len(path[1]) >= 2
       /\ path[1][Len(path[1])] = ".csv"
       /\ path[1][Len(path[1]) - 1] \in {"_cleaned", "_sampled", "_sample"}
    \/ path[1] = SAMPLES

\* C20: cleanup_after_completion(jobPaths, cleanAll) removes nothing when
\* cleanAll is false; when cleanAll is true it removes exactly the intermediate
\* artifacts in the output directory (files matching *_cleaned.csv,
\* *_sampled.csv, *_sample.csv and the samples/ subdirectory) and leaves every
\* other file, in particular results.json, intact; so a successful job with
\* cleanAll=true keeps results.json and loses its intermediates.
C20_CleanupRemovesIntermediates ==
    call_pc = "cleaned" =>
        LET before == call_args.output_dir
            after == call_result
        IN  /\ ~call_args.clean_all => after = before
            /\ call_args.clean_all =>
                  after = {path \in before : ~IsIntermediate(path)}
            /\ <<RESULTS_JSON>> \in before => <<RESULTS_JSON>> \in after
            /\ (call_args.clean_all
                    /\ {<<INPUTS_READY>>, <<DATASET_CLEANED>>, <<RESULTS_JSON>>} \subseteq before)
                  => <<RESULTS_JSON>> \in after /\ <<DATASET_CLEANED>> \notin after

\* the outputs of a successful job, with samples/ and a look-alike file in
\* plots/, were cleaned with cleanAll = true: results.json and plots/ stay
C20_Witness ==
    /\ call_pc = "cleaned"
    /\ call_args.clean_all
    /\ {<<INPUTS_READY>>, <<DATASET_CLEANED>>, <<RESULTS_JSON>>,
         <<SAMPLES, <<"sample", ".csv">>>>,
         <<PLOTS, <<"plot", "_cleaned", ".csv">>>>} \subseteq call_args.output_dir
    /\ <<RESULTS_JSON>> \in call_result
    /\ <<PLOTS, <<"plot", "_cleaned", ".csv">>>> \in call_result
    /\ <<DATASET_CLEANED>> \notin call_result
    /\ <<SAMPLES>> \notin call_result

\* a file name with a folder in front of it; a root-level name has none
IsNested(filename) == \E i \in 1..Len(filename) : filename[i] = "/"

\* validate_kw_zip has returned a KWZipLayout
Validated == call_pc = "validated" /\ call_result.raised = None

ReturnedFiles ==
    {call_result.groups[i].files[k] :
        <<i, k>> \in {<<i, k>> \in (1..MaxEntries) \X (1..MaxEntries) :
                        /\ i <= Len(call_result.groups)
                        /\ k <= Len(call_result.groups[i].files)}}

\* C21: every KWZipLayout returned by validate_kw_zip has at least 2 groups,
\* every group has at least one file, group names are pairwise distinct when
\* compared case-insensitively, and its entries are either all root-level
\* (layout B) or all nested (layout A), never a mix.
C21_LayoutInvariants ==
    Validated =>
        LET groups == call_result.groups
        IN  /\ Len(groups) >= 2
            /\ \A i \in 1..Len(groups) : Len(groups[i].files) >= 1
            /\ \A i, k \in 1..Len(groups) :
                  i # k => lower(groups[i].name) # lower(groups[k].name)
            /\ \/ call_result.layout = "B" /\ \A f \in ReturnedFiles : ~IsNested(f)
               \/ call_result.layout = "A" /\ \A f \in ReturnedFiles : IsNested(f)

\* a nested archive of two folders, one with a file in a subfolder
C21_Witness ==
    /\ Validated
    /\ call_result.layout = "A"
    /\ Len(call_result.groups) = 2
    /\ Len(call_result.groups[1].files) = 2
    /\ <<"g", "/", "s", "/", "a", ".", "c", "s", "v">> \in ReturnedFiles

\* the entries of the archive that remain after filtering
QualifyingEntries ==
    {call_args.raw_bytes.infolist[i] :
        i \in {i \in 1..Len(call_args.raw_bytes.infolist) :
                  is_csv_entry(call_args.raw_bytes.infolist[i])}}

IsMixed ==
    /\ \E f \in QualifyingEntries : IsNested(f)
    /\ \E f \in QualifyingEntries : ~IsNested(f)

\* validate_kw_zip has been applied to an archive
ValidatedArchive == call_pc = "validated" /\ call_args.raw_bytes.is_zip

\* C22: validate_kw_zip fails with code MIXED_KW_ZIP_LAYOUT for every archive
\* whose qualifying CSV entries include at least one root-level entry and at
\* least one nested entry, regardless of any other defect the archive has
\* (duplicate names, too few groups).
C22_MixedLayoutRejected ==
    (ValidatedArchive /\ IsMixed) => call_result.raised = "MIXED_KW_ZIP_LAYOUT"

\* a mixed archive whose root entries also collide
C22_Witness ==
    /\ ValidatedArchive
    /\ IsMixed
    /\ {<<"g", ".", "c", "s", "v">>, <<"G", ".", "c", "s", "v">>} \subseteq QualifyingEntries
    /\ call_result.raised = "MIXED_KW_ZIP_LAYOUT"

\* the original group source of an entry: its folder in the nested layout,
\* its stem in the flat layout
GroupSource(filename) ==
    IF IsNested(filename) THEN parts(filename)[1] ELSE stem(filename)

GroupKey(source) == lower(_sanitize_group_name(source))

IsUniform == QualifyingEntries # {} /\ ~IsMixed

\* two different sources with the same key
Collision ==
    \E f1, f2 \in QualifyingEntries :
        /\ GroupSource(f1) # GroupSource(f2)
        /\ GroupKey(GroupSource(f1)) = GroupKey(GroupSource(f2))

\* C23: for a uniform-layout archive, validate_kw_zip fails with
\* DUPLICATE_GROUP_NAME whenever two different original group sources (folder
\* names in the nested layout, file stems in the flat layout) sanitize and
\* lower-case to the same key, and never fails with that code when several
\* entries share one identical original source.
C23_DuplicateIffDifferentSources ==
    (ValidatedArchive /\ IsUniform) =>
        (Collision <=> call_result.raised = "DUPLICATE_GROUP_NAME")

\* two entries of one folder, then a folder whose name differs only in case
C23_Witness ==
    /\ ValidatedArchive
    /\ call_args.raw_bytes.infolist =
          << <<"g", "/", "a", ".", "c", "s", "v">>,
             <<"g", "/", "s", "/", "a", ".", "c", "s", "v">>,
             <<"G", "/", "a", ".", "c", "s", "v">> >>
    /\ call_result.raised = "DUPLICATE_GROUP_NAME"

\* the groups a uniform archive yields
GroupNames == {_sanitize_group_name(GroupSource(f)) : f \in QualifyingEntries}

FewGroups == IsUniform /\ ~Collision /\ Cardinality(GroupNames) < 2

\* C24 as stated: validate_kw_zip fails with INVALID_KW_ZIP_LAYOUT when no
\* qualifying CSV entry remains after filtering, and fails with
\* INSUFFICIENT_GROUPS when a uniform, collision-free archive yields fewer than
\* 2 groups (for example a single root CSV or a single folder).
C24_EmptyOrInsufficient ==
    ValidatedArchive =>
        /\ QualifyingEntries = {} => call_result.raised = "INVALID_KW_ZIP_LAYOUT"
        /\ FewGroups => call_result.raised = "INSUFFICIENT_GROUPS"

\* C24: validate_kw_zip fails with INVALID_KW_ZIP_LAYOUT when no qualifying CSV
\* entry remains after filtering; when a uniform, collision-free archive yields
\* fewer than 2 groups it fails with INVALID_GROUP_NAME if the group's name is
\* empty after sanitization and with INSUFFICIENT_GROUPS otherwise.
C24_EmptyOrInsufficientOrUnnamed ==
    ValidatedArchive =>
        /\ QualifyingEntries = {} => call_result.raised = "INVALID_KW_ZIP_LAYOUT"
        /\ FewGroups =>
              call_result.raised =
                  IF <<>> \in GroupNames THEN "INVALID_GROUP_NAME"
                  ELSE "INSUFFICIENT_GROUPS"

\* a single folder with two files, next to entries that are filtered out
C24_Witness ==
    /\ ValidatedArchive
    /\ Len(call_args.raw_bytes.infolist) = 3
    /\ Cardinality(QualifyingEntries) = 2
    /\ \A f \in QualifyingEntries : IsNested(f)
    /\ FewGroups
    /\ call_result.raised = "INSUFFICIENT_GROUPS"

\* the edges of the job state machine
StatusEdges ==
    {<<QUEUED, RUNNING>>, <<RUNNING, COMPLETED>>, <<RUNNING, FAILED>>,
     <<RUNNING, CANCELLED>>, <<QUEUED, CANCELLED>>}

\* the status changes a step writes to the stored records
StatusChanges ==
    {<<StoredStatus(j), StoredStatus(j)'>> :
        j \in {j \in DOMAIN redis_jobs \cap DOMAIN redis_jobs' :
                  StoredStatus(j) # StoredStatus(j)'}}

\* C25: every change of a job's stored status follows an edge of the state
\* machine: QUEUED to RUNNING, RUNNING to COMPLETED, RUNNING to FAILED, RUNNING
\* to CANCELLED, or QUEUED to CANCELLED; no other status change is ever written
\* by any operation.
C25_StatusFollowsEdges == [][StatusChanges \subseteq StatusEdges]_vars

\* the positions of execute between the get and the set of a repository update
WorkerUpdating ==
    {"attach_save", "attach2_save", "reject_save", "running_save", "prepare_save",
     "loop_save", "finalize_save", "progress_save", "completed_save",
     "cancelled_save", "timeout_save", "error_save"}

\* the processes that have fetched the record of job j in update_status,
\* update_progress or update_task_id and have not stored it yet
Updaters(j) ==
    (IF epc[j] = "task_save" THEN {"enqueue_job"} ELSE {})
        \cup (IF wpc[j] \in WorkerUpdating THEN {"execute"} ELSE {})
        \cup (IF cpc[j] = "status_save" THEN {"cancel_job"} ELSE {})

\* C26: at any time at most one process is inside a fetch-mutate-store update
\* (update_status, update_progress, update_task_id) of a given job's record, so
\* no field written to a job record is ever overwritten by a stale copy read
\* before that write; in particular requesting cancellation and attaching the
\* task id after dispatch never lose or revert an update made by the Runner.
C26_OneUpdaterPerRecord == \A j \in Jobs : Cardinality(Updaters(j)) <= 1

StoredAcross == DOMAIN redis_jobs \cap DOMAIN redis_jobs'

\* C28: for every job, created_at never changes after the record is first
\* stored, and started_at and finished_at are each assigned at most once: once
\* either is non-null in the stored record, no later operation changes its
\* value.
C28_TimestampsAssignedOnce ==
    [][\A j \in StoredAcross :
          LET before == get(redis_jobs, j)
              after == get(redis_jobs, j)'
          IN  /\ after.created_at = before.created_at
              /\ before.started_at # NoTime => after.started_at = before.started_at
              /\ before.finished_at # NoTime => after.finished_at = before.finished_at]_vars

\* C29: JobSemaphore.acquire(limit, ttl) called when the counter is already at
\* or above limit returns false and mutates nothing: the counter value and its
\* expiry are unchanged; otherwise it increments the counter by exactly one,
\* re-arms the expiry to ttl and returns true.
C29_AcquireFrame ==
    call_pc = "acquired" =>
        LET before == call_args.sem
            after == call_result.sem
        IN  IF SemCurrent(before) >= call_args.limit
            THEN /\ ~call_result.acquired
                 /\ after = before
            ELSE /\ call_result.acquired
                 /\ after # NoKey
                 /\ SemCurrent(after) = SemCurrent(before) + 1
                 /\ SemExpireAt(after) = call_args.now + call_args.ttl_seconds

\* a refused acquire on a counter whose expiry is not the one a re-arming
\* would give
C29_Witness ==
    /\ call_pc = "acquired"
    /\ SemCurrent(call_args.sem) = call_args.limit
    /\ SemExpireAt(call_args.sem) # call_args.now + call_args.ttl_seconds
    /\ ~call_result.acquired
    /\ call_result.sem = call_args.sem

\* C30: JobSemaphore.release decrements the counter by one, never takes it
\* below zero (a release on an absent or zero counter leaves it absent), and
\* deletes the key as soon as the value reaches zero, so a fully released
\* semaphore holds no counter key.
C30_ReleaseClampsAndDeletes ==
    call_pc = "released" =>
        LET before == call_args.sem
            after == call_result.sem
        IN  /\ SemCurrent(after) >= 0
            /\ SemCurrent(before) <= 1 => after = NoKey
            /\ SemCurrent(before) > 1 =>
                  /\ after # NoKey
                  /\ SemCurrent(after) = SemCurrent(before) - 1
            /\ after # NoKey => SemCurrent(after) > 0

\* the release of the last permit deletes the key
C30_Witness ==
    /\ call_pc = "released"
    /\ SemCurrent(call_args.sem) = 1
    /\ call_result.sem = NoKey

\* C31: in every reachable state the semaphore counter value v satisfies
\* 0 <= v <= max_concurrent_jobs, under any interleaving of acquire, release
\* and key expiry.
C31_CounterWithinLimit ==
    /\ 0 <= SemCurrent(semaphore)
    /\ SemCurrent(semaphore) <= MaxConcurrentJobs

\* the counter is at the limit: one job holds its permit and another has just
\* been refused
C31_Witness ==
    /\ SemCurrent(semaphore) = MaxConcurrentJobs
    /\ \E j \in Jobs : wacquired[j] /\ wreleases[j] = 0
    /\ \E j \in Jobs : wpc[j] = "reject_get"

\* the positions of _run_job at a _guard call, and after a normal return of it
GuardPositions == {"guard_prepare", "guard_loop", "guard_finalize"}

AfterGuard == {"guard_loop", "write_cleaned", "loop_get", "completed_get"}

\* job j takes a step out of a guard checkpoint (a worker killed by revoke
\* takes none)
GuardStep(j) ==
    /\ wpc[j] \in GuardPositions
    /\ wpc'[j] # wpc[j]
    /\ wpc'[j] # "killed"

\* C32: a guard checkpoint raises the cancellation signal whenever the job's
\* cancellation flag is set, even if the deadline has also passed; it raises
\* the timeout signal only when the flag is not set and now is strictly greater
\* than the deadline; otherwise (flag not set and now <= deadline) it returns
\* normally without changing any state.
C32_GuardSignals ==
    [][\A j \in Jobs :
          GuardStep(j) =>
              LET flag == is_cancel_requested(redis_cancel, j)
                  late == now > wdeadline[j]
              IN  /\ flag => wpc'[j] = "cancelled_get"
                  /\ (wpc'[j] = "timeout_get") <=> (~flag /\ late)
                  /\ (~flag /\ ~late) =>
                        /\ wpc'[j] \in AfterGuard
                        /\ UNCHANGED <<now, redis, disk>>]_vars

\* a checkpoint has raised the cancellation signal with the deadline passed
C32_Witness ==
    \E j \in Jobs :
        /\ wpc[j] = "cancelled_get"
        /\ is_cancel_requested(redis_cancel, j)
        /\ now > wdeadline[j]
        /\ wacquired[j]

UpdateMethods == {"update_status", "update_progress", "update_task_id"}

\* the job the call names has no stored record
NoStoredRecord == _job_key(call_args.job_id) \notin DOMAIN call_args.store

\* C33: update_status, update_progress and update_task_id on a job id with no
\* stored record raise a not-found error (KeyError) and leave the store
\* unchanged: no record is created and no other key is modified.
C33_UpdateOfMissingRaises ==
    (call_pc \in UpdateMethods /\ NoStoredRecord) =>
        /\ call_result.raised = "KeyError"
        /\ call_result.store = call_args.store
        /\ _job_key(call_args.job_id) \notin DOMAIN call_result.store

\* update_task_id of a job without a record, while its cancel flag and the
\* record of another job are stored
C33_Witness ==
    /\ call_pc = "update_task_id"
    /\ NoStoredRecord
    /\ _cancel_key(call_args.job_id) \in DOMAIN call_args.store
    /\ \E k \in Jobs \ {call_args.job_id} : _job_key(k) \in DOMAIN call_args.store
    /\ call_result.raised = "KeyError"
    /\ call_result.store = call_args.store

RecordMethods == {"save"} \cup UpdateMethods

FlagMethods == {"mark_cancel_flag", "clear_cancel_flag"}

\* C34: the cancellation flag and the record payload of a job are independent:
\* mark_cancel_flag and clear_cancel_flag never change the stored record, and
\* save, update_status, update_progress and update_task_id never change the
\* value returned by is_cancel_requested.
C34_FlagAndRecordIndependent ==
    /\ call_pc \in FlagMethods =>
          \A j \in Jobs :
              JobRepository_get(call_result.store, j) = JobRepository_get(call_args.store, j)
    /\ call_pc \in RecordMethods =>
          \A j \in Jobs :
              JobRepository_is_cancel_requested(call_result.store, j)
                  = JobRepository_is_cancel_requested(call_args.store, j)

\* update_status has stored a changed record of a flagged job, and the flag
\* is still set
C34_Witness ==
    /\ call_pc = "update_status"
    /\ call_result.raised = None
    /\ JobRepository_get(call_result.store, call_args.job_id)
          # JobRepository_get(call_args.store, call_args.job_id)
    /\ JobRepository_is_cancel_requested(call_args.store, call_args.job_id)
    /\ JobRepository_is_cancel_requested(call_result.store, call_args.job_id)

\* the counter no longer counts a killed holder: it is at most the number of
\* invocations that hold a permit and will release it
LeakReclaimed == SemCurrent(semaphore) <= holders

\* C35: if a holder acquires a permit and then crashes without ever calling
\* release, the leaked slot is eventually reclaimed by the counter's expiry,
\* so that admission capacity eventually returns to the full limit, under any
\* subsequent workload of acquires and releases by other jobs.
C35_LeakEventuallyReclaimed == (crashed > 0) ~> LeakReclaimed


\* JobRunner.execute for job a takes a step
ExecuteStep(a) == wpc'[a] # wpc[a]

\* the Redis keys and the directory that belong to job b are left as they are
JobStateUnchanged(b) ==
    /\ (b \in DOMAIN redis_jobs') <=> (b \in DOMAIN redis_jobs)
    /\ b \in DOMAIN redis_jobs => redis_jobs'[b] = redis_jobs[b]
    /\ (b \in DOMAIN redis_cancel') <=> (b \in DOMAIN redis_cancel)
    /\ b \in DOMAIN redis_cancel => redis_cancel'[b] = redis_cancel[b]
    /\ (b \in dirs') <=> (b \in dirs)
    /\ files'[b] = files[b]

\* the keys the repository derives from two job ids have nothing in common
KeysApart(a, b) ==
    {_job_key(a), _cancel_key(a)} \cap {_job_key(b), _cancel_key(b)} = {}

InProgress == Cardinality({j \in Jobs : Executing(j)}) + holders

\* no key can have expired yet: no time has passed since the start
NoExpiryPossible == now = 0

\* C37: absent key expiry, in every reachable state the semaphore counter
\* equals the number of JobRunner.execute invocations that have acquired a
\* permit and not yet released it; consequently, whenever no execute invocation
\* is in progress the counter key is absent.
C37_CounterCountsHolders ==
    NoExpiryPossible =>
        /\ SemCurrent(semaphore) = OutstandingPermits
        /\ InProgress = 0 => semaphore = NoKey


\* C38: a JobRunner.execute invocation whose acquire was denied never calls
\* JobSemaphore.release: from the denied acquire to its return each of its
\* steps leaves the counter as it is, so a rejected job never decrements the
\* counter or frees a permit held by another running job.
C38_DeniedNeverReleases ==
    [][\A j \in Jobs :
          (ExecuteStep(j) /\ j \in Denied') =>
              /\ wreleases'[j] = 0
              /\ semaphore' = semaphore]_vars

\* a denied job has returned without a release while the job that was admitted
\* still holds the one permit
C38_Witness ==
    \E a \in Jobs : \E b \in Jobs \ {a} :
        /\ a \in Denied
        /\ wpc[a] = "returned"
        /\ wreleases[a] = 0
        /\ wacquired[b]
        /\ wreleases[b] = 0
        /\ Executing(b)
        /\ SemCurrent(semaphore) = 1


\* C39: with no concurrent writer to the job's record, the JobRecord returned
\* by JobRunner.execute is identical in every field (status, timestamps, error,
\* progress, task id) to the record stored in the repository for that job at
\* the moment execute returns, on every exit path.
C39_ReturnedIsStored ==
    \A j \in Jobs : wpc[j] = "returned" => wret[j] = get(redis_jobs, j)


\* C40: for every input string, the sanitized group name produced by
\* _sanitize_group_name contains only characters from [A-Za-z0-9._-], contains
\* no two consecutive underscores, neither starts nor ends with an underscore,
\* and has length at most 64; consequently sanitizing an already sanitized name
\* returns it unchanged.
C40_SanitizedNameIsClean ==
    call_pc = "sanitized" =>
        LET s == call_result IN
        /\ \A i \in 1..Len(s) : s[i] \in GroupNameChars
        /\ \A i \in 1..(Len(s) - 1) : ~(s[i] = "_" /\ s[i + 1] = "_")
        /\ s # <<>> => s[1] # "_" /\ s[Len(s)] # "_"
        /\ Len(s) <= GroupNameLimit
        /\ _sanitize_group_name(s) = s

====
